---- MODULE Spec2Model ----
(***************************************************************************)
(* Model of the Home Assistant habitica integration's recurrence utilities *)
(* (util.py) and of its update_task action (services.py).                  *)
(*                                                                         *)
(* Dates are day numbers, clock times are whole hours, UTC offsets are     *)
(* whole hours.  A date string is a record [fmt, day, hour, off]: the      *)
(* format it is written in, the wall-clock day and hour it spells and the  *)
(* UTC offset it carries.                                                  *)
(***************************************************************************)
EXTENDS Integers, Sequences, FiniteSets, TLC

VARIABLES
    tz,         \* DEFAULT_TIME_ZONE of the host: its UTC offset in hours
    task,       \* the task record handed to next_due_date / build_rrule
    last_cron,  \* user.lastCron, the last-reset timestamp (a date string)
    due,        \* what next_due_date returned or raised ("pending" before the call)
    date,       \* the string handed to to_date
    parsed,     \* what to_date returned ("pending" before the call)
    tried,      \* the parsers to_date tried, in order
    rule,       \* the arguments build_rrule gave rrule() ("pending" before the call)
    tasks,      \* coordinator.data.tasks: the cached task list
    user_tags,  \* coordinator.data.user["tags"]
    call,       \* call.data of the update_task call
    posted,     \* the tag names api.tags.post was called with, in order
    submitted,  \* api.tasks[task_id].put was called
    data,       \* the payload handed to put
    outcome,    \* "pending", "ok", or the translation key of the error raised
    placeholders, \* the translation placeholders of the error raised
    log,        \* the coordinator refreshes and upstream requests of the run, in order
    service,    \* the handler that is called
    req,        \* its arguments, when it is not update_task
    hdata,      \* HabitipyData.data: the cached user data (None at first)
    htasks,     \* HabitipyData.tasks: the cached task list
    throttled,  \* HabitipyData.update ran less than MIN_TIME_BETWEEN_UPDATES ago
    polls,      \* the number of runs of HabitipyData.update so far
    last,       \* what the last call of HabitipyData.update did
    native_value, \* HabitipySensor._attr_native_value
    sensor_error, \* the error HabitipySensor.async_update raised ("" when none)
    settings,   \* the Pinecil's settings as written to the device
    csettings,  \* coordinator.settings: the settings as last read from it
    flash,      \* the settings the Pinecil holds in flash
    pending,    \* the number of deferred saves scheduled and not yet run
    saves,      \* the number of saves to flash performed
    bursts,     \* the number of write bursts begun
    writes,     \* the number of setting writes so far
    ista_entry, \* the ista EcoTrend config entry: its state, data and options
    otp_state,  \* the state of the OTP entity (0: the entity has no state)
    logins,     \* the login attempts of async_setup_entry, in order
    codes,      \* the number of one-time codes entered in a config flow so far
    hentries,   \* the state of each habitica config entry
    registered, \* the api_call service is registered
    api_runs,   \* the runs of handle_api_call, in order
    dev_on,     \* the LedSC device is lit
    websc_on,   \* the WebSC client's copy of the device state (is_on)
    to_device,  \* the messages sent to the device and not yet processed by it
    to_client,  \* the state reports of the device not yet received by the client
    requested,  \* the last of async_turn_on / async_turn_off that was called
    lcalls,     \* the number of turn-on / turn-off calls so far
    shown       \* the due date the dailies list shows for the task

rvars == <<tz, task, last_cron, due, date, parsed, tried, rule>>
uvars == <<tasks, user_tags, call, posted, submitted, data, outcome, placeholders, log>>
avars == <<service, req>>
pvars == <<hdata, htasks, throttled, polls, last, native_value, sensor_error>>
nvars == <<settings, csettings, flash, pending, saves, bursts, writes>>
ivars == <<ista_entry, otp_state, logins, codes>>
evars == <<hentries, registered, api_runs>>
lvars == <<dev_on, websc_on, to_device, to_client, requested, lcalls>>
dvars == <<shown>>
xvars == <<ivars, evars, lvars, dvars>>
vars == <<rvars, uvars, avars, pvars, nvars, xvars>>

(***************************************************************************)
(* Bounds of the model.                                                    *)
(***************************************************************************)
MaxDay == 2
MaxNextDue == 2
MaxOffset == 2

(***************************************************************************)
(* Date strings.                                                           *)
(***************************************************************************)
\* clock hours: midnight, noon, and the two hours an offset of MaxOffset
\* carries across midnight
Hours == {0, MaxOffset, 12, 24 - MaxOffset}
Offsets == {0 - MaxOffset, 0, MaxOffset}

IsoStr(d, h, o) == [fmt |-> "iso", day |-> d, hour |-> h, off |-> o]
JsStr(d, h, o) == [fmt |-> "js", day |-> d, hour |-> h, off |-> o]
BadStr == [fmt |-> "bad", day |-> 0, hour |-> 0, off |-> 0]

\* every string of the model: ISO-8601 and legacy JavaScript spellings of
\* every modelled wall-clock time and offset, and one malformed string
AllDateStrings ==
    {IsoStr(d, h, o) : d \in 0..MaxDay, h \in Hours, o \in Offsets}
        \cup {JsStr(d, h, o) : d \in 0..MaxDay, h \in Hours, o \in Offsets}
        \cup {BadStr}

\* the strings task records are built from: noon UTC of every day in ISO
\* spelling, one legacy spelling, and the malformed string
TaskDateStrings ==
    {IsoStr(d, 12, 0) : d \in 0..MaxDay} \cup {JsStr(1, 12, 0), BadStr}

None == [kind |-> "none", date |-> 0]
Date(d) == [kind |-> "date", date |-> d]
Raise(exc) == [kind |-> exc, date |-> 0]
Pending == [kind |-> "pending", date |-> 0]

\* datetime.datetime.fromisoformat: the aware datetime, ValueError otherwise
fromisoformat(s) ==
    IF s.fmt = "iso"
    THEN [ok |-> TRUE, day |-> s.day, hour |-> s.hour, off |-> s.off]
    ELSE [ok |-> FALSE, day |-> 0, hour |-> 0, off |-> 0]

\* datetime.datetime.strptime(date, "%a %b %d %Y %H:%M:%S %Z%z")
strptime(s) ==
    IF s.fmt = "js"
    THEN [ok |-> TRUE, day |-> s.day, hour |-> s.hour, off |-> s.off]
    ELSE [ok |-> FALSE, day |-> 0, hour |-> 0, off |-> 0]

\* dt_util.as_local(dt).date(): the calendar date of the instant in the
\* host's time zone
as_local_date(dt, zone) == ((dt.day * 24 + dt.hour - dt.off) + zone) \div 24

to_date_nofallback(s, zone) ==
    IF fromisoformat(s).ok THEN Date(as_local_date(fromisoformat(s), zone)) ELSE None

to_date(s, zone) ==
    IF fromisoformat(s).ok
    THEN Date(as_local_date(fromisoformat(s), zone))
    ELSE IF strptime(s).ok
         THEN Date(as_local_date(strptime(s), zone))
         ELSE None

\* the parsers to_date calls on s, in the order it calls them
to_date_tried(s) ==
    IF fromisoformat(s).ok THEN <<"iso">> ELSE <<"iso", "js">>

(***************************************************************************)
(* Task records.                                                           *)
(***************************************************************************)
Frequencies == {"daily", "weekly", "monthly", "yearly"}

SeqsUpTo(S, n) == UNION {[1..k -> S] : k \in 0..n}

\* the fields next_due_date reads; nextDue is <<>> when the key is missing
WEEK_DAYS == <<"m", "t", "w", "th", "f", "s", "su">>
WeekDays == {WEEK_DAYS[i] : i \in DOMAIN WEEK_DAYS}

\* a repeat record with no weekday active
NoRepeat == [d \in WeekDays |-> FALSE]

DueTasks ==
    [everyX : {0, 1},
     hasNextDue : BOOLEAN,
     nextDue : SeqsUpTo(TaskDateStrings, MaxNextDue),
     startDate : TaskDateStrings,
     isDue : BOOLEAN,
     completed : BOOLEAN,
     frequency : Frequencies,
     daysOfMonth : {<<>>, <<1>>},
     weeksOfMonth : {<<>>},
     repeat : {NoRepeat}]

\* the fields build_rrule reads
RRuleTasks ==
    [everyX : {1, 2},
     hasNextDue : {FALSE},
     nextDue : {<<>>},
     startDate : {IsoStr(1, 12, 0), JsStr(1, 12, 0)},
     isDue : {FALSE},
     completed : {FALSE},
     frequency : Frequencies \cup {"other"},
     daysOfMonth : {<<>>, <<1>>, <<1, 15>>},
     weeksOfMonth : {<<>>, <<0>>, <<2>>},
     repeat : [WeekDays -> BOOLEAN]]

NoTask ==
    [everyX |-> 1, hasNextDue |-> FALSE, nextDue |-> <<>>,
     startDate |-> BadStr, isDue |-> FALSE, completed |-> FALSE,
     frequency |-> "daily", daysOfMonth |-> <<>>, weeksOfMonth |-> <<>>,
     repeat |-> NoRepeat]

\* task.get("nextDue") is truthy
HasNextDue(t) == t.hasNextDue /\ t.nextDue # <<>>

\* line 32: grey dailies never become due
IsGrey_ignores_interval(t) == ~HasNextDue(t)

IsGrey(t) == t.everyX = 0 \/ ~HasNextDue(t)

\* line 41
IsDueIncomplete_ignores_not(t) == t.isDue /\ t.completed

IsDueIncomplete(t) == t.isDue /\ ~t.completed

\* lines 45-47: the recurrences that start on startDate
UsesStartDate_daily_only(t) == t.frequency = "daily"

UsesStartDate(t) ==
    t.frequency = "daily"
        \/ (t.frequency \in {"monthly", "yearly"} /\ t.daysOfMonth # <<>>)

\* lines 50-54: the first nextDue entry precedes startDate
FirstIsStale(t, startdate, nextdue) ==
    /\ t.frequency \in {"weekly", "monthly"}
    /\ nextdue.kind = "date"
    /\ startdate.date > nextdue.date

\* startdate > today: a comparison with None raises TypeError
next_due_date(t, cron, zone) ==
    IF IsGrey(t)
    THEN None
    ELSE LET today == to_date(cron, zone)
             startdate == to_date(t.startDate, zone)
             nextdue == to_date(t.nextDue[1], zone)
         IN  IF IsDueIncomplete(t)
             THEN to_date(cron, zone)
             ELSE IF startdate.kind = "none" \/ today.kind = "none"
             THEN Raise("TypeError")
             ELSE IF startdate.date > today.date /\ UsesStartDate(t)
             THEN startdate
             ELSE IF startdate.date > today.date
                     /\ FirstIsStale(t, startdate, nextdue)
             THEN IF Len(t.nextDue) < 2
                  THEN Raise("IndexError")
                  ELSE to_date(t.nextDue[2], zone)
             ELSE to_date(t.nextDue[1], zone)

(***************************************************************************)
(* build_rrule: the arguments it hands to dateutil's rrule().  An argument *)
(* is [has, v]: has is FALSE when None is passed.                          *)
(***************************************************************************)
frequency_map(f) ==
    IF f \in Frequencies THEN f ELSE "daily"

weekday_map ==
    [d \in WeekDays |->
        CASE d = "m" -> "MO" [] d = "t" -> "TU" [] d = "w" -> "WE"
          [] d = "th" -> "TH" [] d = "f" -> "FR" [] d = "s" -> "SA"
          [] d = "su" -> "SU"]

NoArg(v) == [has |-> FALSE, v |-> v]
Arg(v) == [has |-> TRUE, v |-> v]

NoRule(k) ==
    [kind |-> k, freq |-> "daily", interval |-> 0, byweekday |-> NoArg({}),
     bymonthday |-> NoArg(<<>>), bysetpos |-> NoArg(<<>>)]

\* lines 90-92: the markers of the active days
ActiveWeekdays(t) == {weekday_map[d] : d \in {x \in WeekDays : t.repeat[x]}}

\* lines 93-97
ByMonthDay(t) ==
    IF frequency_map(t.frequency) = "monthly" /\ t.daysOfMonth # <<>>
    THEN Arg(t.daysOfMonth)
    ELSE NoArg(<<>>)

\* lines 99-101
BySetPos(t) ==
    IF frequency_map(t.frequency) = "monthly" /\ t.weeksOfMonth # <<>>
    THEN Arg(t.weeksOfMonth)
    ELSE NoArg(<<>>)

\* lines 100-102, 108
ByWeekday(t) ==
    LET weekdays ==
            IF frequency_map(t.frequency) = "monthly" /\ t.weeksOfMonth # <<>>
               /\ ActiveWeekdays(t) = {}
            THEN {"MO"}
            ELSE ActiveWeekdays(t)
    IN  IF frequency_map(t.frequency) \in {"weekly", "monthly"}
        THEN Arg(weekdays)
        ELSE NoArg({})

\* dtstart is fromisoformat(startDate): ValueError when it is not ISO
build_rrule(t) ==
    IF ~fromisoformat(t.startDate).ok
    THEN NoRule("ValueError")
    ELSE [kind |-> "rrule",
          freq |-> frequency_map(t.frequency),
          interval |-> t.everyX,
          byweekday |-> ByWeekday(t),
          bymonthday |-> ByMonthDay(t),
          bysetpos |-> BySetPos(t)]

(***************************************************************************)
(* update_task (services.py).  A call's optional field is [has, v]: has is *)
(* FALSE when the call does not name the field.  The payload `data` is a   *)
(* function from the keys set so far to their values.                      *)
(***************************************************************************)
\* the model's calendar: day 0 is a Monday and the 1st of a 31-day month
weekday(d) == d % 7
day_of_month(d) == (d % 31) + 1

Absent(v) == [has |-> FALSE, v |-> v]
Present(v) == [has |-> TRUE, v |-> v]
Opt(F, f, vals, dflt) == IF f \in F THEN {Present(v) : v \in vals} ELSE {Absent(dflt)}

EmptyDict == [k \in {} |-> TRUE]
Put(d, k, v) == [x \in (DOMAIN d) \cup {k} |-> IF x = k THEN v ELSE d[x]]
Range(q) == {q[i] : i \in DOMAIN q}

\* values of the payload
JsonNull == [fmt |-> "null", day |-> 0, hour |-> 0, off |-> 0]
\* datetime.combine(d, time()).isoformat(): midnight, no offset
isoformat(d) == [fmt |-> "iso-naive", day |-> d, hour |-> 0, off |-> 0]
JsonInt(n) == [kind |-> "int", n |-> n]
JsonEmptyList == [kind |-> "list", n |-> 0]

\* PRIORITIES, in tenths
PRIORITIES == [trivial |-> 1, easy |-> 10, medium |-> 15, hard |-> 20]

\* str.lower on the tag names of the model
lower(n) == IF n = "A" THEN "a" ELSE n

ServerId(n) == [src |-> "server", n |-> n]
Uuid4(n) == [src |-> "uuid4", n |-> n]

\* tag ids: of a tag the user has, and of the tag the i-th POST created
TagId(name) == [new |-> FALSE, name |-> name, n |-> 0]
CreatedTagId(name, i) == [new |-> TRUE, name |-> name, n |-> i]

\* lookup_task: the index of the first task whose id, alias or text is the
\* search term; 0 when there is none (task_not_found)
lookup_task(ts, search) ==
    LET hits == {i \in DOMAIN ts :
                    \/ ts[i].id = search
                    \/ ts[i].alias = search
                    \/ ts[i].text = search}
    IN  IF hits = {} THEN 0 ELSE CHOOSE i \in hits : \A j \in hits : i <= j

\* lines 123-136
DataBasic(c) ==
    LET d1 == IF c.rename.has /\ c.rename.v # ""
              THEN Put(EmptyDict, "text", c.rename.v) ELSE EmptyDict
        d2 == IF c.description.has /\ c.description.v # ""
              THEN Put(d1, "notes", c.description.v) ELSE d1
        d3 == IF c.priority.has
              THEN Put(d2, "priority", PRIORITIES[c.priority.v]) ELSE d2
        d4 == IF c.date.has THEN Put(d3, "date", isoformat(c.date.v)) ELSE d3
    IN  IF c.clear_date.has /\ c.clear_date.v THEN Put(d4, "date", JsonNull) ELSE d4

\* lines 152-155: the id the user's tag set gives a lowercased name
HasUserTag(utags, name) == \E i \in DOMAIN utags : lower(utags[i].name) = lower(name)
UserTagId(utags, name) ==
    LET i == CHOOSE i \in DOMAIN utags :
                /\ lower(utags[i].name) = lower(name)
                /\ \A j \in DOMAIN utags :
                      lower(utags[j].name) = lower(name) => j <= i
    IN  utags[i].id

\* lines 141, 157: the tag block runs / the add branch runs
TagsEdited(c) ==
    (c.tag.has /\ c.tag.v # <<>>) \/ (c.remove_tag.has /\ c.remove_tag.v # <<>>)
TagsAdded(c) == c.tag.has /\ c.tag.v # <<>>

\* lines 160-167: the requested names tags.post is called for, in order
NamesToPost_all(c, utags) == IF TagsAdded(c) THEN c.tag.v ELSE <<>>

NamesToPost(c, utags) ==
    IF TagsAdded(c)
    THEN SelectSeq(c.tag.v, LAMBDA n : ~HasUserTag(utags, n))
    ELSE <<>>

\* lines 142-189: the tag set submitted, when every POST succeeded
UpdateTags(c, cur, utags) ==
    LET toPost == NamesToPost(c, utags)
        added ==
            IF TagsAdded(c)
            THEN {UserTagId(utags, n) : n \in {x \in Range(c.tag.v) : HasUserTag(utags, x)}}
                    \cup {CreatedTagId(toPost[i], i) : i \in DOMAIN toPost}
            ELSE {}
        removed ==
            IF c.remove_tag.has /\ c.remove_tag.v # <<>>
            THEN {UserTagId(utags, n) :
                     n \in {x \in Range(c.remove_tag.v) : HasUserTag(utags, x)}}
            ELSE {}
    IN  (cur.tags \cup added) \ removed

\* lines 191-195
DataAliasCost(c, d) ==
    LET d1 == IF c.alias.has /\ c.alias.v # "" THEN Put(d, "alias", c.alias.v) ELSE d
    IN  IF c.cost.has /\ c.cost.v # 0 THEN Put(d1, "value", c.cost.v) ELSE d1

\* lines 202-207
ChecklistEdited_always(c) == TRUE

ChecklistEdited(c) ==
    \/ c.add_checklist_item.has /\ c.add_checklist_item.v # <<>>
    \/ c.remove_checklist_item.has /\ c.remove_checklist_item.v # <<>>
    \/ c.score_checklist_item.has /\ c.score_checklist_item.v # <<>>
    \/ c.unscore_checklist_item.has /\ c.unscore_checklist_item.v # <<>>

\* lines 210-215: checklist.extend(...) appends, in order, every item whose
\* text the list (as extended so far) does not hold
RECURSIVE Extend(_, _, _)
Extend(cl, items, k) ==
    IF k > Len(items)
    THEN cl
    ELSE IF \E i \in DOMAIN cl : cl[i].text = items[k]
         THEN Extend(cl, items, k + 1)
         ELSE Extend(Append(cl, [id |-> Uuid4(k), text |-> items[k],
                                 completed |-> FALSE]),
                     items, k + 1)

\* the task's own checklist after the block: extend works in place
ExtendedChecklist(c, cur) ==
    IF c.add_checklist_item.has /\ c.add_checklist_item.v # <<>>
    THEN Extend(cur.checklist, c.add_checklist_item.v, 1)
    ELSE cur.checklist

\* lines 208-237: the checklist submitted
NewChecklist(c, cur) ==
    LET score == IF c.score_checklist_item.has
                 THEN Range(c.score_checklist_item.v) ELSE {}
        unscore == IF c.unscore_checklist_item.has
                   THEN Range(c.unscore_checklist_item.v) ELSE {}
        c1 == ExtendedChecklist(c, cur)
        c2 == IF c.remove_checklist_item.has /\ c.remove_checklist_item.v # <<>>
              THEN SelectSeq(c1, LAMBDA it : it.text \notin Range(c.remove_checklist_item.v))
              ELSE c1
    IN  IF score # {} \/ unscore # {}
        THEN [i \in DOMAIN c2 |->
                [c2[i] EXCEPT !.completed =
                    IF c2[i].text \in score THEN TRUE
                    ELSE IF c2[i].text \in unscore THEN FALSE
                    ELSE c2[i].completed]]
        ELSE c2

\* lines 239-253
DataRecurrence(c, d) ==
    LET d1 == IF c.frequency.has THEN Put(d, "frequency", c.frequency.v) ELSE d
        d2 == IF c.interval.has /\ c.interval.v # 0
              THEN Put(d1, "everyX", c.interval.v) ELSE d1
        d3 == IF c.up_down.has /\ c.up_down.v # <<>>
              THEN Put(Put(d2, "up", "positive" \in Range(c.up_down.v)),
                       "down", "negative" \in Range(c.up_down.v))
              ELSE d2
    IN  IF c.start_date.has
        THEN Put(d3, "startDate", isoformat(c.start_date.v))
        ELSE d3

\* lines 256, 264: frequency or current_task.get("frequency")
EffectiveFrequency(c, cur) ==
    IF c.frequency.has THEN c.frequency.v ELSE cur.frequency

\* line 255
RepeatEdited(c) == c.repeat.has /\ c.repeat.v # {}

\* line 257
RepeatRecord(days) == [d \in WeekDays |-> d \in days]

\* line 270: start_date or to_date(current_task["startDate"])
CurrentStartDate(c, cur, zone) ==
    IF c.start_date.has THEN Date(c.start_date.v) ELSE to_date(cur.startDate, zone)

\* lines 279-291
DataRepeatMonthly_day_div_7(c, d, start) ==
    IF c.repeat_monthly.v = "day_of_week"
    THEN Put(Put(Put(d, "weeksOfMonth", JsonInt(day_of_month(start) \div 7)),
                 "repeat",
                 [x \in WeekDays |->
                    \E i \in DOMAIN WEEK_DAYS :
                        WEEK_DAYS[i] = x /\ i - 1 = weekday(start)]),
             "daysOfMonth", JsonEmptyList)
    ELSE Put(Put(d, "daysOfMonth", JsonInt(day_of_month(start))),
             "weeksOfMonth", JsonEmptyList)

DataRepeatMonthly(c, d, start) ==
    IF c.repeat_monthly.v = "day_of_week"
    THEN Put(Put(Put(d, "weeksOfMonth", JsonInt((day_of_month(start) - 1) \div 7)),
                 "repeat",
                 [x \in WeekDays |->
                    \E i \in DOMAIN WEEK_DAYS :
                        WEEK_DAYS[i] = x /\ i - 1 = weekday(start)]),
             "daysOfMonth", JsonEmptyList)
    ELSE Put(Put(d, "daysOfMonth", JsonInt(day_of_month(start))),
             "weeksOfMonth", JsonEmptyList)

\* lines 293-362: each block that runs sets data["reminders"] anew from the
\* task's reminders.  A reminder is [id, day, hour, daily]
NewReminders(q, cur, daily, day) ==
    LET fresh == SelectSeq(q, LAMBDA r :
                    IF daily
                    THEN \A i \in DOMAIN cur.reminders : cur.reminders[i].hour # r.hour
                    ELSE \A i \in DOMAIN cur.reminders :
                            ~(cur.reminders[i].day = r.day
                              /\ cur.reminders[i].hour = r.hour))
    IN  [i \in DOMAIN fresh |->
            [id |-> Uuid4(i), day |-> IF daily THEN day ELSE fresh[i].day,
             hour |-> fresh[i].hour, daily |-> daily]] \o cur.reminders

DataReminders(c, cur, d, today) ==
    LET d1 == IF c.reminder.has /\ c.reminder.v # <<>>
              THEN Put(d, "reminders", NewReminders(c.reminder.v, cur, FALSE, today))
              ELSE d
        d2 == IF c.reminder_time.has /\ c.reminder_time.v # <<>>
              THEN Put(d1, "reminders", NewReminders(c.reminder_time.v, cur, TRUE, today))
              ELSE d1
        d3 == IF c.remove_reminder.has /\ c.remove_reminder.v # <<>>
              THEN Put(d2, "reminders",
                       SelectSeq(cur.reminders, LAMBDA r :
                           \A i \in DOMAIN c.remove_reminder.v :
                               ~(c.remove_reminder.v[i].day = r.day
                                 /\ c.remove_reminder.v[i].hour = r.hour)))
              ELSE d2
        d4 == IF c.remove_reminder_time.has /\ c.remove_reminder_time.v # <<>>
              THEN Put(d3, "reminders",
                       SelectSeq(cur.reminders, LAMBDA r :
                           \A i \in DOMAIN c.remove_reminder_time.v :
                               c.remove_reminder_time.v[i].hour # r.hour))
              ELSE d3
    IN  IF c.clear_reminder.has /\ c.clear_reminder.v
        THEN Put(d4, "reminders", <<>>)
        ELSE d4

\* lines 364-369
DataCounters(c, d) ==
    LET d1 == IF c.streak.has /\ c.streak.v # 0 THEN Put(d, "streak", c.streak.v) ELSE d
        d2 == IF c.counter_up.has /\ c.counter_up.v # 0
              THEN Put(d1, "counterUp", c.counter_up.v) ELSE d1
    IN  IF c.counter_down.has /\ c.counter_down.v # 0
        THEN Put(d2, "counterDown", c.counter_down.v)
        ELSE d2

\* what one run of the handler did: how it ended, what it sent upstream,
\* and the current task's checklist as the run left it
Ended(o, p, cl) ==
    [outcome |-> o, posted |-> p, submitted |-> FALSE, data |-> EmptyDict,
     checklist |-> cl]
Put200(d, p, cl, status) ==
    [outcome |-> IF status = 200 THEN "ok"
                 ELSE IF status = 429 THEN "setup_rate_limit_exception"
                 ELSE "service_call_exception",
     posted |-> p, submitted |-> TRUE, data |-> d, checklist |-> cl]

\* lines 109-381 after the lookup: cur is the task found; post_fail is the
\* index of the tags.post call the upstream refuses (0: none) with
\* post_status; put_status is its answer to the put; today is date.today()
update_task(c, cur, utags, zone, post_fail, post_status, put_status, today) ==
    LET toPost == NamesToPost(c, utags)
        d1 == DataBasic(c)
        d2 == IF TagsEdited(c) THEN Put(d1, "tags", UpdateTags(c, cur, utags)) ELSE d1
        d3 == DataAliasCost(c, d2)
        d4 == IF ChecklistEdited(c) THEN Put(d3, "checklist", NewChecklist(c, cur)) ELSE d3
        cl == IF ChecklistEdited(c) THEN ExtendedChecklist(c, cur) ELSE cur.checklist
        d5 == DataRecurrence(c, d4)
        d6 == IF RepeatEdited(c) THEN Put(d5, "repeat", RepeatRecord(c.repeat.v)) ELSE d5
        start == CurrentStartDate(c, cur, zone)
        d7 == IF c.repeat_monthly.has /\ start.kind = "date"
              THEN DataRepeatMonthly(c, d6, start.date)
              ELSE d6
        d8 == DataCounters(c, DataReminders(c, cur, d7, today))
    IN  IF post_fail \in DOMAIN toPost
        THEN Ended(IF post_status = 429 THEN "setup_rate_limit_exception"
                   ELSE "service_call_exception",
                   SubSeq(toPost, 1, post_fail), cur.checklist)
        ELSE IF RepeatEdited(c) /\ EffectiveFrequency(c, cur) # "weekly"
        THEN Ended("frequency_not_weekly", toPost, cl)
        ELSE IF c.repeat_monthly.has /\ EffectiveFrequency(c, cur) # "monthly"
        THEN Ended("frequency_not_monthly", toPost, cl)
        ELSE IF c.repeat_monthly.has /\ start.kind # "date"
        THEN Ended("frequency_not_monthly", toPost, cl)
        ELSE Put200(d8, toPost, cl, put_status)

(***************************************************************************)
(* The cached data and the calls of the model.                             *)
(***************************************************************************)
MaxFields == 2

CachedTask(id, alias, text, frequency, startDate) ==
    [id |-> id, alias |-> alias, text |-> text, type |-> "daily",
     up |-> FALSE, down |-> FALSE,
     everyX |-> 1, hasNextDue |-> FALSE, nextDue |-> <<>>,
     startDate |-> startDate, isDue |-> FALSE, completed |-> FALSE,
     frequency |-> frequency, daysOfMonth |-> <<>>, weeksOfMonth |-> <<>>,
     repeat |-> [d \in WeekDays |-> d = "m"],
     tags |-> {TagId("a")},
     checklist |-> <<[id |-> ServerId(1), text |-> "old", completed |-> FALSE]>>,
     reminders |-> <<[id |-> ServerId(1), day |-> 1, hour |-> 20, daily |-> FALSE]>>]

\* a weekly task, a monthly task, and a monthly task whose startDate does
\* not parse and whose text is the second task's
CachedTasks ==
    <<CachedTask("id-1", "alias-1", "Zahnseide", "weekly", IsoStr(8, 12, 0)),
      CachedTask("id-2", "alias-2", "Brush", "monthly", IsoStr(9, 12, 0)),
      CachedTask("id-3", "alias-3", "Brush", "monthly", BadStr)>>

\* the tasks of the other types: an open and a completed to-do, and a habit
\* that counts both ways
TypedTask(id, text, type, completed, up, down) ==
    [CachedTask(id, "", text, "daily", BadStr) EXCEPT
        !.type = type, !.completed = completed, !.up = up, !.down = down]

ActionTasks ==
    CachedTasks \o
        <<TypedTask("id-4", "Buy milk", "todo", FALSE, FALSE, FALSE),
          TypedTask("id-5", "Pay bill", "todo", TRUE, FALSE, FALSE),
          TypedTask("id-6", "Stairs", "habit", FALSE, TRUE, TRUE)>>

UserTags == <<[name |-> "A", id |-> TagId("a")], [name |-> "b", id |-> TagId("b")]>>

Fields ==
    {"rename", "description", "tag", "remove_tag", "alias", "priority", "date",
     "clear_date", "reminder", "reminder_time", "remove_reminder",
     "remove_reminder_time", "clear_reminder", "cost", "add_checklist_item",
     "remove_checklist_item", "score_checklist_item", "unscore_checklist_item",
     "up_down", "start_date", "frequency", "interval", "repeat",
     "repeat_monthly", "counter_up", "counter_down", "streak"}

RECURSIVE SubsetsUpTo(_, _)
SubsetsUpTo(S, n) ==
    IF n = 0
    THEN {{}}
    ELSE LET P == SubsetsUpTo(S, n - 1) IN P \cup {X \cup {e} : X \in P, e \in S}

Times == {[day |-> 1, hour |-> 20], [day |-> 1, hour |-> 22]}

\* SERVICE_UPDATE_TASK_SCHEMA: the calls that name the fields F, with the
\* given task references and weekday lists
CallsOf(F, refs, repeats) ==
    [task : refs,
     rename : Opt(F, "rename", {"", "new-task-name"}, ""),
     description : Opt(F, "description", {"", "new-task-description"}, ""),
     tag : Opt(F, "tag", {<<>>, <<"a">>, <<"c">>, <<"c", "b">>}, <<>>),
     remove_tag : Opt(F, "remove_tag", {<<>>, <<"A">>, <<"c">>}, <<>>),
     alias : Opt(F, "alias", {"test-alias"}, ""),
     priority : Opt(F, "priority", DOMAIN PRIORITIES, "easy"),
     date : Opt(F, "date", {1}, 0),
     clear_date : Opt(F, "clear_date", BOOLEAN, FALSE),
     reminder : Opt(F, "reminder", {<<>>} \cup {<<t>> : t \in Times}, <<>>),
     reminder_time : Opt(F, "reminder_time", {<<>>} \cup {<<t>> : t \in Times}, <<>>),
     remove_reminder : Opt(F, "remove_reminder", {<<>>} \cup {<<t>> : t \in Times}, <<>>),
     remove_reminder_time :
         Opt(F, "remove_reminder_time", {<<>>} \cup {<<t>> : t \in Times}, <<>>),
     clear_reminder : Opt(F, "clear_reminder", BOOLEAN, FALSE),
     cost : Opt(F, "cost", {0, 5}, 0),
     add_checklist_item :
         Opt(F, "add_checklist_item", {<<>>, <<"old">>, <<"x", "x">>}, <<>>),
     remove_checklist_item : Opt(F, "remove_checklist_item", {<<>>, <<"old">>}, <<>>),
     score_checklist_item : Opt(F, "score_checklist_item", {<<>>, <<"old">>}, <<>>),
     unscore_checklist_item : Opt(F, "unscore_checklist_item", {<<>>, <<"old">>}, <<>>),
     up_down : Opt(F, "up_down", {<<>>, <<"positive">>, <<"positive", "negative">>}, <<>>),
     start_date : Opt(F, "start_date", {6, 30}, 0),
     frequency : Opt(F, "frequency", Frequencies, "daily"),
     interval : Opt(F, "interval", {0, 1}, 0),
     repeat : Opt(F, "repeat", repeats, {}),
     repeat_monthly : Opt(F, "repeat_monthly", {"day_of_month", "day_of_week"}, "day_of_month"),
     counter_up : Opt(F, "counter_up", {0, 1}, 0),
     counter_down : Opt(F, "counter_down", {0, 1}, 0),
     streak : Opt(F, "streak", {0, 100}, 0)]

TaskRefs == {"id-1", "alias-2", "id-3", "Brush", "unknown"}
RepeatLists == {{}, {"m"}, {"su", "t", "th", "s"}, WeekDays}

NoCall == CHOOSE c \in CallsOf({}, {"unknown"}, {{}}) : TRUE

\* an entry of the log: a coordinator refresh or a request sent upstream, the
\* task (or tag name) it is about, and the status the upstream answered (200
\* when it accepted)
Ev(op, target, status) == [op |-> op, target |-> target, status |-> status]

\* a TodoItem: description and due are None when has is FALSE
TodoItem(uid, summary, description, duedate, status) ==
    [uid |-> uid, summary |-> summary, description |-> description,
     due |-> duedate, status |-> status]

\* the arguments of a handler other than update_task: the config entry is
\* loaded, the skill and task of cast_skill, the list entity (idx) and the
\* uids, uid, previous_uid or item of its to-do operation
NoReq ==
    [entry |-> FALSE, skill |-> "", task |-> Absent(""), idx |-> "",
     uids |-> <<>>, uid |-> "", previous_uid |-> "",
     item |-> TodoItem("", "", Absent(""), Absent(0), "needs_action")]

\* call.data of cast_skill
SkillCall(entry, skill, t) ==
    [NoReq EXCEPT !.entry = entry, !.skill = skill, !.task = t]

\* HabitipyData as constructed (coordinator.py 21-26), and its sensor
NoData == Absent(0)
NoPollYet ==
    [ran |-> FALSE, caller |-> "", user |-> 0, tasks1 |-> 0, tasks2 |-> 0,
     fetched |-> <<>>, logged |-> <<>>, raised |-> FALSE,
     user_body |-> 0, tasks_body |-> <<>>, completed_body |-> <<>>,
     pre_data |-> NoData, pre_tasks |-> <<>>, prev_user |-> 0, prev_tasks |-> 0]
NoPoll ==
    /\ hdata = NoData
    /\ htasks = <<>>
    /\ throttled = FALSE
    /\ polls = 0
    /\ last = NoPollYet
    /\ native_value = NoData
    /\ sensor_error = ""

\* the Pinecil's settings: one value for each of two keys
SettingKeys == {"setpoint_temp", "display_brightness"}
NoPinecil ==
    /\ settings = [k \in SettingKeys |-> 1]
    /\ csettings = [k \in SettingKeys |-> 1]
    /\ flash = [k \in SettingKeys |-> 1]
    /\ pending = 0
    /\ saves = 0
    /\ bursts = 0
    /\ writes = 0

\* ista EcoTrend: no config entry yet
NoCode == 0
NoIstaEntry == [state |-> "none", code |-> NoCode, otp |-> FALSE]
NoIsta ==
    /\ ista_entry = NoIstaEntry
    /\ otp_state = 0
    /\ logins = <<>>
    /\ codes = 0

\* the habitica config entries: none is configured, api_call not registered
EntryIds == {"e1", "e2"}
NoEntries ==
    /\ hentries = [e \in EntryIds |-> "none"]
    /\ registered = FALSE
    /\ api_runs = <<>>

\* the LedSC light: off, nothing in flight, nothing called
NoLedsc ==
    /\ dev_on = FALSE
    /\ websc_on = FALSE
    /\ to_device = <<>>
    /\ to_client = <<>>
    /\ requested = "none"
    /\ lcalls = 0

\* no integration is in use
NoOthers == NoPinecil /\ NoIsta /\ NoEntries /\ NoLedsc /\ shown = Pending

\* no recurrence utility is called
NoRecurrence ==
    /\ tz = 0
    /\ task = NoTask
    /\ last_cron = BadStr
    /\ due = Pending
    /\ date = BadStr
    /\ parsed = Pending
    /\ tried = <<>>
    /\ rule = NoRule("pending")

NoUpdate ==
    /\ NoPoll
    /\ NoOthers
    /\ tasks = <<>>
    /\ user_tags = <<>>
    /\ call = NoCall
    /\ posted = <<>>
    /\ submitted = FALSE
    /\ data = EmptyDict
    /\ outcome = "idle"
    /\ placeholders = EmptyDict
    /\ log = <<>>
    /\ service = "none"
    /\ req = NoReq

(***************************************************************************)
(* SpecDue: next_due_date applied to every task record and last-reset      *)
(* string of the model.                                                    *)
(***************************************************************************)
InitDue ==
    /\ tz \in Offsets
    /\ task \in {t \in DueTasks : t.hasNextDue \/ t.nextDue = <<>>}
    /\ last_cron \in TaskDateStrings
    /\ due = Pending
    /\ date = BadStr
    /\ parsed = Pending
    /\ tried = <<>>
    /\ rule = NoRule("pending")
    /\ NoUpdate

NextDueDate ==
    /\ due = Pending
    /\ due' = next_due_date(task, last_cron, tz)
    /\ UNCHANGED <<tz, task, last_cron, date, parsed, tried, rule, uvars, avars, xvars, pvars, nvars>>

SpecDue == InitDue /\ [][NextDueDate]_vars

(***************************************************************************)
(* SpecDate: to_date applied to every date string of the model.            *)
(***************************************************************************)
InitDate ==
    /\ tz \in Offsets
    /\ task = NoTask
    /\ last_cron = BadStr
    /\ due = Pending
    /\ date \in AllDateStrings
    /\ parsed = Pending
    /\ tried = <<>>
    /\ rule = NoRule("pending")
    /\ NoUpdate

ToDate ==
    /\ parsed = Pending
    /\ parsed' = to_date(date, tz)
    /\ tried' = to_date_tried(date)
    /\ UNCHANGED <<tz, task, last_cron, due, date, rule, uvars, avars, xvars, pvars, nvars>>

SpecDate == InitDate /\ [][ToDate]_vars

(***************************************************************************)
(* SpecRRule: build_rrule applied to every task record of RRuleTasks.      *)
(***************************************************************************)
InitRRule ==
    /\ tz = 0
    /\ task \in RRuleTasks
    /\ last_cron = BadStr
    /\ due = Pending
    /\ date = BadStr
    /\ parsed = Pending
    /\ tried = <<>>
    /\ rule = NoRule("pending")
    /\ NoUpdate

BuildRRule ==
    /\ rule.kind = "pending"
    /\ rule' = build_rrule(task)
    /\ UNCHANGED <<tz, task, last_cron, due, date, parsed, tried, uvars, avars, xvars, pvars, nvars>>

SpecRRule == InitRRule /\ [][BuildRRule]_vars

(***************************************************************************)
(* SpecUpdate: update_task called once with every call of at most          *)
(* MaxFields optional fields, under every answer of the upstream.          *)
(***************************************************************************)
InitUpdateWith(calls) ==
    /\ tz = 0
    /\ task = NoTask
    /\ last_cron = BadStr
    /\ due = Pending
    /\ date = BadStr
    /\ parsed = Pending
    /\ tried = <<>>
    /\ rule = NoRule("pending")
    /\ tasks = CachedTasks
    /\ user_tags = UserTags
    /\ call \in calls
    /\ posted = <<>>
    /\ submitted = FALSE
    /\ data = EmptyDict
    /\ outcome = "pending"
    /\ placeholders = EmptyDict
    /\ log = <<>>
    /\ service = "update_task"
    /\ req = NoReq
    /\ NoPoll
    /\ NoOthers

InitUpdate ==
    InitUpdateWith(UNION {CallsOf(F, TaskRefs, RepeatLists) :
                            F \in SubsetsUpTo(Fields, MaxFields)})

\* the answers the upstream can give one run: which tags.post it refuses (0:
\* none) and with what status, its answer to the put, and the day it is
Answers(c, utags) ==
    [post_fail : {0}, post_status : {200}, put_status : {200, 401, 429, 500},
     today : IF c.reminder_time.has THEN {0, 1} ELSE {0}]
        \cup [post_fail : DOMAIN NamesToPost(c, utags), post_status : {429, 500},
              put_status : {200}, today : {0}]

\* the log of one run of update_task: the refresh of line 115, the tags.post
\* calls (the last one refused when post_failed) and the put
UpdateTaskLog(run, id, a) ==
    <<Ev("refresh", "", 200)>>
        \o [i \in DOMAIN run.posted |->
                Ev("tags.post", run.posted[i],
                   IF a.post_fail = i THEN a.post_status ELSE 200)]
        \o (IF run.submitted THEN <<Ev("tasks.put", id, a.put_status)>> ELSE <<>>)

\* lookup_task found nothing: the error names the search term
TaskNotFound(search) == Put(EmptyDict, "task", search)

UpdateTask ==
    /\ service = "update_task"
    /\ outcome = "pending"
    /\ \E a \in Answers(call, user_tags) :
        LET idx == lookup_task(tasks, call.task)
            run == update_task(call, tasks[idx], user_tags, tz,
                               a.post_fail, a.post_status, a.put_status, a.today)
        IN  IF idx = 0
            THEN /\ outcome' = "task_not_found"
                 /\ placeholders' = TaskNotFound(call.task)
                 /\ log' = <<Ev("refresh", "", 200)>>
                 /\ UNCHANGED <<tasks, posted, submitted, data>>
            ELSE /\ outcome' = run.outcome
                 /\ posted' = run.posted
                 /\ submitted' = run.submitted
                 /\ data' = run.data
                 /\ tasks' = [tasks EXCEPT ![idx].checklist = run.checklist]
                 /\ placeholders' = EmptyDict
                 /\ log' = UpdateTaskLog(run, tasks[idx].id, a)
    /\ UNCHANGED <<rvars, user_tags, call, avars, xvars, pvars, nvars>>

SpecUpdate == InitUpdate /\ [][UpdateTask]_vars

(***************************************************************************)
(* cast_skill (__init__.py) and SpecActions: one call of an action handler, *)
(* under every answer of the upstream.                                     *)
(***************************************************************************)
\* lines 166-171
SKILLS ==
    [pickpocket |-> [spellId |-> "pickPocket", cost |-> "10 MP"],
     backstab |-> [spellId |-> "backStab", cost |-> "15 MP"],
     smash |-> [spellId |-> "smash", cost |-> "10 MP"],
     fireball |-> [spellId |-> "fireball", cost |-> "10 MP"]]

\* line 193: the mana of the cached user data, as the error shows it
CachedMana == "50 MP"

\* how a handler ended and what it sent
Result(o, ph, lg) == [outcome |-> o, placeholders |-> ph, log |-> lg]

\* lines 186-207: the error a refused cast raises
CastError_no_mana(c, status) ==
    IF status = 429
    THEN Result("setup_rate_limit_exception", EmptyDict, <<>>)
    ELSE IF status = 404
    THEN Result("skill_not_found", Put(EmptyDict, "skill", c.skill), <<>>)
    ELSE Result("service_call_exception", EmptyDict, <<>>)

CastError(c, status) ==
    IF status = 429
    THEN Result("setup_rate_limit_exception", EmptyDict, <<>>)
    ELSE IF status = 401
    THEN Result("not_enough_mana",
                Put(Put(EmptyDict, "cost", SKILLS[c.skill].cost), "mana", CachedMana),
                <<>>)
    ELSE IF status = 404
    THEN Result("skill_not_found", Put(EmptyDict, "skill", c.skill), <<>>)
    ELSE Result("service_call_exception", EmptyDict, <<>>)

\* lines 156-210; status is the upstream's answer to the cast
cast_skill_no_lookup(c, ts, status) ==
    IF ~c.entry
    THEN Result("entry_not_found", EmptyDict, <<>>)
    ELSE IF ~c.task.has \/ c.skill \notin DOMAIN SKILLS
    THEN Result("KeyError", EmptyDict, <<>>)
    ELSE IF status = 200
    THEN Result("ok", EmptyDict,
                <<Ev("cast", c.task.v, 200), Ev("refresh", "", 200)>>)
    ELSE [CastError(c, status) EXCEPT !.log = <<Ev("cast", c.task.v, status)>>]

cast_skill(c, ts, status) ==
    IF ~c.entry
    THEN Result("entry_not_found", EmptyDict, <<>>)
    ELSE IF ~c.task.has
    THEN Result("KeyError", EmptyDict, <<>>)
    ELSE IF lookup_task(ts, c.task.v) = 0
    THEN Result("task_not_found", TaskNotFound(c.task.v), <<>>)
    ELSE IF c.skill \notin DOMAIN SKILLS
    THEN Result("KeyError", EmptyDict, <<>>)
    ELSE LET task_id == ts[lookup_task(ts, c.task.v)].id
         IN  IF status = 200
             THEN Result("ok", EmptyDict,
                         <<Ev("cast", task_id, 200), Ev("refresh", "", 200)>>)
             ELSE [CastError(c, status) EXCEPT !.log = <<Ev("cast", task_id, status)>>]

Statuses == {200, 401, 404, 429, 500}

CastSkill ==
    /\ service = "cast_skill"
    /\ outcome = "pending"
    /\ \E status \in Statuses :
        LET run == cast_skill(req, tasks, status)
        IN  /\ outcome' = run.outcome
            /\ placeholders' = run.placeholders
            /\ log' = run.log
    /\ UNCHANGED <<rvars, tasks, user_tags, call, posted, submitted, data, avars, xvars, pvars, nvars>>

SkillCalls ==
    {SkillCall(e, sk, t) :
        e \in BOOLEAN,
        sk \in (DOMAIN SKILLS) \cup {"unknown-skill"},
        t \in {Absent("")} \cup {Present(r) : r \in TaskRefs}}

(***************************************************************************)
(* The to-do list entities (todo.py).                                      *)
(***************************************************************************)
Status(completed) == IF completed THEN "completed" ELSE "needs_action"

\* lines 218-242, 280-331, 347-380: todo_items of the list entity idx, as
\* the uid and status of each item
RECURSIVE HabitItems(_)
HabitItems(ts) ==
    IF ts = <<>>
    THEN <<>>
    ELSE LET t == Head(ts)
             it == [uid |-> t.id, status |-> "needs_action"]
         IN  (IF t.type = "habit" /\ t.up THEN <<it>> ELSE <<>>)
                \o (IF t.type = "habit" /\ t.down THEN <<it>> ELSE <<>>)
                \o HabitItems(Tail(ts))

todo_items(ts, idx) ==
    IF idx = "habits"
    THEN HabitItems(ts)
    ELSE LET type == IF idx = "todos" THEN "todo" ELSE "daily"
             mine == SelectSeq(ts, LAMBDA t : t.type = type)
         IN  [i \in DOMAIN mine |->
                [uid |-> mine[i].id, status |-> Status(mine[i].completed)]]

\* the index of the first item with the uid; 0 when there is none
ItemIndex(items, uid) ==
    IF \E i \in DOMAIN items : items[i].uid = uid
    THEN CHOOSE i \in DOMAIN items :
            items[i].uid = uid /\ \A j \in DOMAIN items : items[j].uid = uid => i <= j
    ELSE 0

\* lines 97-108: fail is the index of the deletion the upstream refuses (0:
\* none), with status
async_delete_todo_items_all(c, fail, status) ==
    LET sent == [i \in DOMAIN c.uids |->
                    Ev("tasks.delete", c.uids[i], IF i = fail THEN status ELSE 200)]
    IN  IF fail \in DOMAIN c.uids
        THEN Result("delete_" \o c.idx \o "_failed", EmptyDict, sent)
        ELSE Result("ok", EmptyDict, Append(sent, Ev("refresh", "", 200)))

async_delete_todo_items(c, fail, status) ==
    LET n == IF fail \in DOMAIN c.uids THEN fail ELSE Len(c.uids)
        sent == [i \in 1..n |->
                    Ev("tasks.delete", c.uids[i], IF i = fail THEN status ELSE 200)]
    IN  IF fail \in DOMAIN c.uids
        THEN Result("delete_" \o c.idx \o "_failed", EmptyDict, sent)
        ELSE Result("ok", EmptyDict, Append(sent, Ev("refresh", "", 200)))

\* lines 110-135
async_move_todo_item(c, ts, status) ==
    LET items == todo_items(ts, c.idx)
        pos == IF c.previous_uid # "" THEN ItemIndex(items, c.previous_uid) ELSE 0
        sent == <<Ev("tasks.move", c.uid, status)>>
    IN  IF c.previous_uid # "" /\ ItemIndex(items, c.previous_uid) = 0
        THEN Result("StopIteration", EmptyDict, <<>>)
        ELSE IF status # 200
        THEN Result("move_" \o c.idx \o "_item_failed",
                    Put(EmptyDict, "pos", ToString(pos)), sent)
        ELSE Result("ok", EmptyDict, sent)

\* lines 149-156: the fields of the put
UpdatePayload(c) ==
    Put(Put(Put(EmptyDict, "text", c.item.summary),
            "notes", IF c.item.description.has THEN c.item.description.v ELSE ""),
        "date",
        IF c.item.due.has /\ c.idx = "todos"
        THEN [fmt |-> "iso-date", day |-> c.item.due.v, hour |-> 0, off |-> 0]
        ELSE JsonNull)

\* lines 164-179: the direction to score in; "" when the status is unchanged
ScoreDirection_swapped(current, new) ==
    IF current = "needs_action" /\ new = "completed" THEN "down"
    ELSE IF current = "completed" /\ new = "needs_action" THEN "up"
    ELSE ""

ScoreDirection(current, new) ==
    IF current = "needs_action" /\ new = "completed" THEN "up"
    ELSE IF current = "completed" /\ new = "needs_action" THEN "down"
    ELSE ""

\* lines 137-197
async_update_todo_item(c, ts, put_status, score_status) ==
    LET items == todo_items(ts, c.idx)
        i == ItemIndex(items, c.item.uid)
        put == <<Ev("tasks.put", c.item.uid, put_status)>>
        direction == ScoreDirection(items[i].status, c.item.status)
        score == <<Ev("tasks.score." \o direction, c.item.uid, score_status)>>
        name == Put(EmptyDict, "name", c.item.summary)
    IN  IF put_status # 200
        THEN Result("update_" \o c.idx \o "_item_failed", name, put)
        ELSE IF i = 0
        THEN Result("AttributeError", EmptyDict, put)
        ELSE IF direction = ""
        THEN Result("UnboundLocalError", EmptyDict, put)
        ELSE IF score_status # 200
        THEN Result("score_" \o c.idx \o "_item_failed", name, put \o score)
        ELSE Result("ok", EmptyDict, put \o score \o <<Ev("refresh", "", 200)>>)

\* lines 244-261
async_create_todo_item(c, status) ==
    LET sent == <<Ev("tasks.user.post", c.item.summary, status)>>
    IN  IF status # 200
        THEN Result("create_" \o c.idx \o "_item_failed",
                    Put(EmptyDict, "name", c.item.summary), sent)
        ELSE Result("ok", EmptyDict, Append(sent, Ev("refresh", "", 200)))

\* a handler of a list entity ran
Ran(run) ==
    /\ outcome' = run.outcome
    /\ placeholders' = run.placeholders
    /\ log' = run.log
    /\ UNCHANGED <<rvars, tasks, user_tags, call, posted, submitted, avars, xvars, pvars, nvars>>

DeleteTodoItems ==
    /\ service = "delete"
    /\ outcome = "pending"
    /\ \E fail \in 0..Len(req.uids), status \in {404, 429} :
        Ran(async_delete_todo_items(req, fail, status))
    /\ UNCHANGED data

MoveTodoItem ==
    /\ service = "move"
    /\ outcome = "pending"
    /\ \E status \in {200, 429} : Ran(async_move_todo_item(req, tasks, status))
    /\ UNCHANGED data

UpdateTodoItem ==
    /\ service = "update"
    /\ outcome = "pending"
    /\ \E put_status \in {200, 429}, score_status \in {200, 429} :
        Ran(async_update_todo_item(req, tasks, put_status, score_status))
    /\ data' = UpdatePayload(req)

CreateTodoItem ==
    /\ service = "create"
    /\ outcome = "pending"
    /\ \E status \in {200, 429} : Ran(async_create_todo_item(req, status))
    /\ UNCHANGED data

\* the calls of the list entities, by the features each supports
ItemUids == {"id-1", "id-4", "id-5", "id-6", "gone"}
DeleteCalls ==
    {[NoReq EXCEPT !.idx = "todos", !.uids = u] :
        u \in {<<>>, <<"id-4">>, <<"id-4", "id-5">>, <<"id-4", "id-5", "gone">>}}
MoveCalls ==
    {[NoReq EXCEPT !.idx = x, !.uid = u, !.previous_uid = p] :
        x \in {"todos", "dailys"}, u \in {"id-1", "id-4"},
        p \in {"", "id-2", "id-5", "gone"}}
Items ==
    {TodoItem(u, "summary", d, due_, st) :
        u \in ItemUids, d \in {Absent(""), Present("notes")},
        due_ \in {Absent(0), Present(1)}, st \in {"needs_action", "completed"}}
UpdateCalls ==
    {[NoReq EXCEPT !.idx = x, !.item = it] :
        x \in {"todos", "dailys", "habits"}, it \in Items}
CreateCalls ==
    {[NoReq EXCEPT !.idx = "todos", !.item = it] : it \in {i \in Items : i.uid = "gone"}}

\* the update_task calls of SpecActions
ActionCalls ==
    UNION {CallsOf(F, TaskRefs, {{"m"}}) :
             F \in {{}, {"priority"}, {"tag"}, {"repeat"}, {"tag", "repeat"}}}

InitActions ==
    /\ tz = 0
    /\ task = NoTask
    /\ last_cron = BadStr
    /\ due = Pending
    /\ date = BadStr
    /\ parsed = Pending
    /\ tried = <<>>
    /\ rule = NoRule("pending")
    /\ NoPoll
    /\ NoOthers
    /\ tasks = ActionTasks
    /\ user_tags = UserTags
    /\ posted = <<>>
    /\ submitted = FALSE
    /\ data = EmptyDict
    /\ outcome = "pending"
    /\ placeholders = EmptyDict
    /\ log = <<>>
    /\ \/ service = "update_task" /\ call \in ActionCalls /\ req = NoReq
       \/ service = "cast_skill" /\ call = NoCall /\ req \in SkillCalls
       \/ service = "delete" /\ call = NoCall /\ req \in DeleteCalls
       \/ service = "move" /\ call = NoCall /\ req \in MoveCalls
       \/ service = "update" /\ call = NoCall /\ req \in UpdateCalls
       \/ service = "create" /\ call = NoCall /\ req \in CreateCalls

SpecActions ==
    InitActions
        /\ [][UpdateTask \/ CastSkill \/ DeleteTodoItems \/ MoveTodoItem
                \/ UpdateTodoItem \/ CreateTodoItem]_vars

(***************************************************************************)
(* HabitipyData (coordinator.py), its sensor (sensor.py) and SpecPoll: up   *)
(* to MaxPolls runs of update, under every answer of the upstream.         *)
(***************************************************************************)
MaxPolls == 2

\* an answer of the upstream: the status and, for 200, the body
Answer(status, v) == [status |-> status, v |-> v]

\* what api.user.get, api.tasks.user.get and
\* api.tasks.user.get(type="completedTodos") can answer
UserAnswers == {Answer(200, 1), Answer(200, 2), Answer(429, 0), Answer(500, 0)}
TasksAnswers ==
    {Answer(200, <<"t1">>), Answer(200, <<"t1", "t2">>),
     Answer(429, <<>>), Answer(500, <<>>)}
CompletedAnswers ==
    {Answer(200, <<>>), Answer(200, <<"c1">>), Answer(429, <<>>), Answer(500, <<>>)}

\* lines 33-46, 55-69: what the handler of a ClientResponseError logs
Logged(status) == IF status = 429 THEN "warning" ELSE "error"

\* lines 28-69: one run of update on the cache (d, ts): the new cache, the
\* requests sent, the messages logged, and whether an error escaped
update_stops_at_failure(d, ts, ua, ta, ca) ==
    IF ua.status # 200
    THEN [data |-> d, tasks |-> ts, fetched |-> <<"user">>,
          logged |-> <<Logged(ua.status)>>, raised |-> FALSE]
    ELSE [data |-> Present(ua.v),
          tasks |-> IF ta.status = 200 /\ ca.status = 200 THEN ta.v \o ca.v ELSE ts,
          fetched |-> <<"user", "tasks">>
                        \o (IF ta.status = 200 THEN <<"completedTodos">> ELSE <<>>),
          logged |-> IF ta.status # 200 THEN <<Logged(ta.status)>>
                     ELSE IF ca.status # 200 THEN <<Logged(ca.status)>>
                     ELSE <<>>,
          raised |-> FALSE]

update(d, ts, ua, ta, ca) ==
    [data |-> IF ua.status = 200 THEN Present(ua.v) ELSE d,
     tasks |-> IF ta.status = 200 /\ ca.status = 200 THEN ta.v \o ca.v ELSE ts,
     fetched |-> <<"user", "tasks">>
                    \o (IF ta.status = 200 THEN <<"completedTodos">> ELSE <<>>),
     logged |-> (IF ua.status # 200 THEN <<Logged(ua.status)>> ELSE <<>>)
                    \o (IF ta.status # 200 THEN <<Logged(ta.status)>>
                        ELSE IF ca.status # 200 THEN <<Logged(ca.status)>>
                        ELSE <<>>),
     raised |-> FALSE]

\* the record of a run
LastRun(run, caller, ua, ta, ca) ==
    [ran |-> TRUE, caller |-> caller, user |-> ua.status, tasks1 |-> ta.status,
     tasks2 |-> IF ta.status = 200 THEN ca.status ELSE 0,
     fetched |-> run.fetched, logged |-> run.logged, raised |-> run.raised,
     user_body |-> ua.v, tasks_body |-> ta.v,
     completed_body |-> IF ta.status = 200 THEN ca.v ELSE <<>>,
     pre_data |-> hdata, pre_tasks |-> htasks,
     prev_user |-> last.user, prev_tasks |-> last.tasks1]

\* @Throttle(MIN_TIME_BETWEEN_UPDATES): a call that comes too early returns
\* without running update
Throttled(caller) ==
    /\ throttled
    /\ last' = [last EXCEPT !.ran = FALSE, !.caller = caller]
    /\ UNCHANGED <<hdata, htasks, throttled, polls>>

Runs(caller, ua, ta, ca) ==
    LET run == update(hdata, htasks, ua, ta, ca)
    IN  /\ ~throttled
        /\ polls < MaxPolls
        /\ hdata' = run.data
        /\ htasks' = run.tasks
        /\ last' = LastRun(run, caller, ua, ta, ca)
        /\ throttled' = TRUE
        /\ polls' = polls + 1

\* sensor.py 170-172: async_setup_entry calls update
Update ==
    /\ \/ Throttled("async_setup_entry")
       \/ \E ua \in UserAnswers, ta \in TasksAnswers, ca \in CompletedAnswers :
            Runs("async_setup_entry", ua, ta, ca)
    /\ UNCHANGED <<rvars, uvars, avars, xvars, native_value, sensor_error, nvars>>

\* sensor.py 216-222: the sensor updates the cache and reads its value from
\* it; subscripting None raises TypeError
AsyncUpdate ==
    /\ \/ Throttled("HabitipySensor")
       \/ \E ua \in UserAnswers, ta \in TasksAnswers, ca \in CompletedAnswers :
            Runs("HabitipySensor", ua, ta, ca)
    /\ IF hdata'.has
       THEN native_value' = hdata' /\ sensor_error' = ""
       ELSE native_value' = native_value /\ sensor_error' = "TypeError"
    /\ UNCHANGED <<rvars, uvars, avars, xvars, nvars>>

\* MIN_TIME_BETWEEN_UPDATES passes
MinuteElapses ==
    /\ throttled
    /\ throttled' = FALSE
    /\ UNCHANGED <<rvars, uvars, avars, xvars, nvars, hdata, htasks, polls, last,
                   native_value, sensor_error>>

InitPoll ==
    /\ NoRecurrence
    /\ NoUpdate

SpecPoll == InitPoll /\ [][Update \/ AsyncUpdate \/ MinuteElapses]_vars

(***************************************************************************)
(* The Pinecil's number entities (pinecil/number.py) and SpecPinecil: up   *)
(* to MaxWrites setting writes, with the deferred save running at any time. *)
(***************************************************************************)
MaxWrites == 3

SettingValues == {1, 2, 3}

\* PinecilCoordinator.save_settings: cancels the deferred save that is
\* pending, if any, and schedules a new one; p is the number pending
save_settings_no_cancel(p) == p + 1

save_settings(p) == 1

\* number.py 168-172: write the value, schedule the save, read the settings
\* back
AsyncSetNativeValue ==
    /\ writes < MaxWrites
    /\ \E k \in SettingKeys, value \in SettingValues :
        /\ settings' = [settings EXCEPT ![k] = value]
        /\ pending' = save_settings(pending)
        /\ csettings' = settings'
    /\ bursts' = IF pending = 0 THEN bursts + 1 ELSE bursts
    /\ writes' = writes + 1
    /\ UNCHANGED <<rvars, uvars, avars, xvars, pvars, flash, saves>>

\* a deferred save runs when its settle period has passed: the settings go to
\* flash
DeferredSave ==
    /\ pending > 0
    /\ pending' = pending - 1
    /\ flash' = settings
    /\ saves' = saves + 1
    /\ UNCHANGED <<rvars, uvars, avars, xvars, pvars, settings, csettings, bursts, writes>>

InitPinecil ==
    /\ NoRecurrence
    /\ NoUpdate

SpecPinecil == InitPinecil /\ [][AsyncSetNativeValue \/ DeferredSave]_vars

(***************************************************************************)
(* SpecIsta: the ista EcoTrend config entry (ista_ecotrend/__init__.py,    *)
(* config_flow.py): the config flows store a one-time code in the entry    *)
(* data, async_setup_entry logs in.                                        *)
(***************************************************************************)
MaxCodes == 2
MaxLogins == 3

\* the totp argument of PyEcotrendIsta: None, a code entered in a flow, or
\* the state of the OTP entity
NoTotp == [src |-> "none", n |-> 0]
CodeTotp(n) == [src |-> "code", n |-> n]
StateTotp(n) == [src |-> "state", n |-> n]

\* __init__.py lines 27-31: the entry data after the stored code was read
ClearedCode_kept(e) == e

ClearedCode(e) == IF e.code # NoCode THEN [e EXCEPT !.code = NoCode] ELSE e

\* lines 26-35: the code the login is attempted with
SetupTotp(e, st) ==
    IF e.code # NoCode THEN CodeTotp(e.code)
    ELSE IF e.otp /\ st # 0 THEN StateTotp(st)
    ELSE NoTotp

\* lines 42-63: the state of the entry after the login answered
AfterLogin(answer) ==
    CASE answer = "ServerError" -> "setup_retry"
      [] answer = "LoginError" -> "setup_error"
      [] answer = "UpdateFailed" -> "setup_retry"
      [] OTHER -> "loaded"

\* __init__.py lines 24-63, run by the host for an entry that is not loaded
\* or whose setup is retried; answer is what the login (or, after it, the
\* first refresh) answers
IstaSetupEntry ==
    /\ ista_entry.state \in {"not_loaded", "setup_retry"}
    /\ Len(logins) < MaxLogins
    /\ \E answer \in {"ok", "ServerError", "LoginError", "UpdateFailed"} :
        LET e == ClearedCode(ista_entry)
        IN  /\ logins' = Append(logins,
                    [totp |-> SetupTotp(ista_entry, otp_state),
                     before |-> ista_entry.code,
                     stored |-> e.code,
                     answer |-> answer])
            /\ ista_entry' = [e EXCEPT !.state = AfterLogin(answer)]
    /\ UNCHANGED <<rvars, uvars, avars, pvars, nvars, dvars, evars, lvars, otp_state, codes>>

\* config_flow.py lines 73-110: the user step with a new one-time code, whose
\* login succeeds, creates the entry with the code in its data
IstaStepUser ==
    /\ ista_entry.state = "none"
    /\ codes < MaxCodes
    /\ codes' = codes + 1
    /\ \E ok \in BOOLEAN :
        ista_entry' = IF ok
                      THEN [state |-> "not_loaded", code |-> codes', otp |-> FALSE]
                      ELSE ista_entry
    /\ UNCHANGED <<rvars, uvars, avars, pvars, nvars, dvars, evars, lvars, otp_state, logins>>

\* config_flow.py lines 121-147: the reauth step with a new one-time code,
\* whose login succeeds, replaces the entry data and reloads the entry
IstaReauthConfirm ==
    /\ ista_entry.state = "setup_error"
    /\ codes < MaxCodes
    /\ codes' = codes + 1
    /\ \E ok \in BOOLEAN :
        ista_entry' = IF ok
                      THEN [ista_entry EXCEPT !.state = "not_loaded", !.code = codes']
                      ELSE ista_entry
    /\ UNCHANGED <<rvars, uvars, avars, pvars, nvars, dvars, evars, lvars, otp_state, logins>>

\* config_flow.py lines 173-185: the options flow names the OTP entity
IstaOptionsFlow ==
    /\ ista_entry.state # "none"
    /\ ~ista_entry.otp
    /\ ista_entry' = [ista_entry EXCEPT !.otp = TRUE]
    /\ UNCHANGED <<rvars, uvars, avars, pvars, nvars, dvars, evars, lvars, otp_state, logins, codes>>

\* the OTP entity reports a state
OtpStateChanges ==
    /\ \E st \in {1, 2} : st # otp_state /\ otp_state' = st
    /\ UNCHANGED <<rvars, uvars, avars, pvars, nvars, dvars, evars, lvars, ista_entry, logins, codes>>

\* __init__.py lines 66-68: the loaded entry is unloaded (to be set up again)
IstaUnloadEntry ==
    /\ ista_entry.state = "loaded"
    /\ ista_entry' = [ista_entry EXCEPT !.state = "not_loaded"]
    /\ UNCHANGED <<rvars, uvars, avars, pvars, nvars, dvars, evars, lvars, otp_state, logins, codes>>

InitIsta == NoRecurrence /\ NoUpdate

SpecIsta ==
    InitIsta
        /\ [][IstaSetupEntry \/ IstaStepUser \/ IstaReauthConfirm
                \/ IstaOptionsFlow \/ OtpStateChanges \/ IstaUnloadEntry]_vars

(***************************************************************************)
(* SpecEntries: setup and unload of the habitica config entries and the    *)
(* api_call service (habitica/__init__.py lines 508-600).                  *)
(***************************************************************************)
MaxApiCalls == 2

\* hass.config_entries.async_entries(DOMAIN): every configured entry, loaded
\* or not
Configured(es) == {e \in EntryIds : es[e] # "none"}

\* the config flow creates an entry
AddEntry ==
    /\ \E e \in EntryIds :
        /\ hentries[e] = "none"
        /\ hentries' = [hentries EXCEPT ![e] = "not_loaded"]
    /\ UNCHANGED <<rvars, uvars, avars, pvars, nvars, dvars, ivars, lvars, registered, api_runs>>

\* lines 508-593: setup of an entry; the user fetch or the first refresh may
\* fail (ConfigEntryNotReady), before the service is registered
HabiticaSetupEntry ==
    /\ \E e \in EntryIds, ok \in BOOLEAN :
        /\ hentries[e] \in {"not_loaded", "setup_retry"}
        /\ hentries' = [hentries EXCEPT ![e] = IF ok THEN "loaded" ELSE "setup_retry"]
        /\ registered' = (registered \/ ok)
    /\ UNCHANGED <<rvars, uvars, avars, pvars, nvars, dvars, ivars, lvars, api_runs>>

\* lines 596-600: unload of a loaded entry (it stays configured)
HabiticaUnloadEntry ==
    /\ \E e \in EntryIds :
        /\ hentries[e] = "loaded"
        /\ registered' = IF Cardinality(Configured(hentries)) = 1
                         THEN FALSE
                         ELSE registered
        /\ hentries' = [hentries EXCEPT ![e] = "not_loaded"]
    /\ UNCHANGED <<rvars, uvars, avars, pvars, nvars, dvars, ivars, lvars, api_runs>>

\* an entry that is not loaded is removed
RemoveEntry ==
    /\ \E e \in EntryIds :
        /\ hentries[e] \in {"not_loaded", "setup_retry"}
        /\ hentries' = [hentries EXCEPT ![e] = "none"]
    /\ UNCHANGED <<rvars, uvars, avars, pvars, nvars, dvars, ivars, lvars, registered, api_runs>>

\* lines 526-551: api_call is called with the name of an entry; the run is
\* against the entry of that name among async_entries, or "not configured"
handle_api_call(es, name) ==
    IF name \in Configured(es)
    THEN [name |-> name, against |-> es[name]]
    ELSE [name |-> name, against |-> "not configured"]

ApiCall ==
    /\ registered
    /\ Len(api_runs) < MaxApiCalls
    /\ \E name \in EntryIds :
        api_runs' = Append(api_runs, handle_api_call(hentries, name))
    /\ UNCHANGED <<rvars, uvars, avars, pvars, nvars, dvars, ivars, lvars, hentries, registered>>

InitEntries == NoRecurrence /\ NoUpdate

SpecEntries ==
    InitEntries
        /\ [][AddEntry \/ HabiticaSetupEntry \/ HabiticaUnloadEntry
                \/ RemoveEntry \/ ApiCall]_vars

(***************************************************************************)
(* SpecLedsc: a LedSC light (ledsc/light.py): the entity sends switch and  *)
(* colour messages to the device through the WebSC client, the device      *)
(* reports each change of its state back, and is_on reads the client's     *)
(* copy of the reported state.                                             *)
(***************************************************************************)
MaxLightCalls == 4

\* lines 134-141: the messages async_turn_on sends
async_turn_on(kwargs, is_on) ==
    IF kwargs \in {"brightness", "rgbw_color"} THEN <<"set_rgbw">>
    ELSE IF ~is_on THEN <<"px_trigger">>
    ELSE <<>>

\* lines 143-146: the messages async_turn_off sends
async_turn_off(is_on) == IF is_on THEN <<"px_trigger">> ELSE <<>>

AsyncTurnOn ==
    /\ lcalls < MaxLightCalls
    /\ lcalls' = lcalls + 1
    /\ requested' = "on"
    /\ \E kwargs \in {"none", "brightness", "rgbw_color"} :
        to_device' = to_device \o async_turn_on(kwargs, websc_on)
    /\ UNCHANGED <<rvars, uvars, avars, pvars, nvars, dvars, ivars, evars, dev_on, websc_on, to_client>>

AsyncTurnOff ==
    /\ lcalls < MaxLightCalls
    /\ lcalls' = lcalls + 1
    /\ requested' = "off"
    /\ to_device' = to_device \o async_turn_off(websc_on)
    /\ UNCHANGED <<rvars, uvars, avars, pvars, nvars, dvars, ivars, evars, dev_on, websc_on, to_client>>

\* the device processes the next message: a px trigger switches it over, a
\* colour lights it; it reports its new state
DeviceProcesses ==
    /\ to_device # <<>>
    /\ dev_on' = IF Head(to_device) = "px_trigger" THEN ~dev_on ELSE TRUE
    /\ to_device' = Tail(to_device)
    /\ to_client' = Append(to_client, dev_on')
    /\ UNCHANGED <<rvars, uvars, avars, pvars, nvars, dvars, ivars, evars, websc_on, requested, lcalls>>

\* lines 153-159: the client's observer receives a report and calls
\* on_device_change, which refreshes the entity's state
OnDeviceChange ==
    /\ to_client # <<>>
    /\ websc_on' = Head(to_client)
    /\ to_client' = Tail(to_client)
    /\ UNCHANGED <<rvars, uvars, avars, pvars, nvars, dvars, ivars, evars, dev_on, to_device, requested, lcalls>>

InitLedsc == NoRecurrence /\ NoUpdate

SpecLedsc ==
    InitLedsc /\ [][AsyncTurnOn \/ AsyncTurnOff \/ DeviceProcesses \/ OnDeviceChange]_vars

(***************************************************************************)
(* SpecShown: the due date of a daily as the dailies list computes it      *)
(* (todo.py lines 292-315) next to util.next_due_date, for every task      *)
(* record and last-reset string of SpecDue.                                *)
(***************************************************************************)
\* todo.py lines 292-315: the function inside todo_items; it reads
\* coordinator.data.user["lastCron"]
inline_next_due_date(t, cron, zone) ==
    IF t.isDue /\ ~t.completed
    THEN IF fromisoformat(cron).ok
         THEN Date(as_local_date(fromisoformat(cron), zone))
         ELSE Raise("ValueError")
    ELSE IF ~t.hasNextDue
    THEN Raise("KeyError")
    ELSE IF t.nextDue = <<>>
    THEN None
    ELSE IF fromisoformat(t.nextDue[1]).ok
    THEN Date(as_local_date(fromisoformat(t.nextDue[1]), zone))
    ELSE IF strptime(t.nextDue[1]).ok
    THEN Date(as_local_date(strptime(t.nextDue[1]), zone))
    ELSE None

\* todo.py lines 280-331: todo_items of the dailies list, for the task
DailiesTodoItems ==
    /\ shown = Pending
    /\ task # NoTask
    /\ shown' = inline_next_due_date(task, last_cron, tz)
    /\ UNCHANGED <<rvars, uvars, avars, pvars, nvars, ivars, evars, lvars>>

SpecShown == InitDue /\ [][NextDueDate \/ DailiesTodoItems]_vars

(***************************************************************************)
(* SpecRoundTrip: a weekday list sent through update_task, and build_rrule *)
(* applied to the weekly task that carries the submitted repeat record.    *)
(***************************************************************************)
InitRoundTrip ==
    InitUpdateWith(UNION {CallsOf(F, {"id-1", "alias-2"}, SUBSET WeekDays) :
                            F \in {{"repeat"}, {"repeat", "frequency"}}})

BuildRRuleOfUpdate ==
    /\ outcome = "ok"
    /\ "repeat" \in DOMAIN data
    /\ rule.kind = "pending"
    /\ task' = [tasks[lookup_task(tasks, call.task)] EXCEPT
                    !.frequency = "weekly", !.everyX = 1, !.repeat = data["repeat"]]
    /\ rule' = build_rrule(task')
    /\ UNCHANGED <<tz, last_cron, due, date, parsed, tried, uvars, avars, xvars, pvars, nvars>>

SpecRoundTrip == InitRoundTrip /\ [][UpdateTask \/ BuildRRuleOfUpdate]_vars

(***************************************************************************)
(* Claims about next_due_date (SpecDue).                                   *)
(***************************************************************************)
Called == due # Pending

\* the calendar date a string denotes in the host's time zone, by format
DateOf(s) ==
    IF s.fmt \in {"iso", "js"}
    THEN Date((s.day * 24 + s.hour - s.off + tz) \div 24)
    ELSE None

Grey == task.everyX = 0 \/ ~task.hasNextDue \/ Len(task.nextDue) = 0
DueAndIncomplete == task.isDue /\ ~task.completed
NotStarted ==
    /\ DateOf(task.startDate).kind = "date"
    /\ DateOf(last_cron).kind = "date"
    /\ DateOf(task.startDate).date > DateOf(last_cron).date
StartDateRule ==
    /\ NotStarted
    /\ \/ task.frequency = "daily"
       \/ task.frequency \in {"monthly", "yearly"} /\ task.daysOfMonth # <<>>
StaleFirstRule ==
    /\ NotStarted
    /\ task.frequency \in {"weekly", "monthly"}
    /\ DateOf(task.nextDue[1]).kind = "date"
    /\ DateOf(task.nextDue[1]).date < DateOf(task.startDate).date

\* C1: a task whose everyX is 0 or whose nextDue list is missing or empty
\* has no due date, whatever isDue, completed, frequency, startDate,
\* daysOfMonth and the last-reset timestamp are.
C1_GreyHasNoDate == (Called /\ Grey) => due = None

C1_Witness ==
    /\ due = None
    /\ task.everyX = 0
    /\ task.hasNextDue /\ Len(task.nextDue) > 0
    /\ task.isDue /\ ~task.completed

\* C2 as stated: every task with isDue and not completed is due on the
\* last-reset date.
C2_Original == (Called /\ DueAndIncomplete) => due = DateOf(last_cron)

\* C2, amended: a task with isDue and not completed, whose everyX is not 0
\* and whose nextDue list is not empty, is due on the last-reset date.
C2_DueIncompleteIsLastCron ==
    (Called /\ DueAndIncomplete /\ ~Grey) => due = DateOf(last_cron)

C2_Witness ==
    /\ Called /\ DueAndIncomplete /\ ~Grey
    /\ NotStarted
    /\ due.kind = "date"
    /\ due # DateOf(task.nextDue[1])
    /\ due # DateOf(task.startDate)

\* C3: when neither earlier rule applies and startDate is strictly after the
\* last-reset date, a daily task, and a monthly or yearly task with
\* days-of-month set, is due on its startDate.
C3_FutureStartIsStartDate ==
    (Called /\ ~Grey /\ ~DueAndIncomplete /\ StartDateRule)
        => due = DateOf(task.startDate)

C3_Witness ==
    /\ Called /\ ~Grey /\ ~DueAndIncomplete /\ StartDateRule
    /\ task.frequency = "yearly"
    /\ due.kind = "date"
    /\ due # DateOf(task.nextDue[1])

\* the date of the second nextDue entry; no date when there is none
SecondEntryDate ==
    IF Len(task.nextDue) >= 2 THEN DateOf(task.nextDue[2]) ELSE None

\* C4: a not-yet-started weekly or monthly task the start-date rule does not
\* cover, whose first nextDue entry is strictly before startDate, is due on
\* the date of its second nextDue entry.
C4_StaleFirstIsSecond ==
    (Called /\ ~Grey /\ ~DueAndIncomplete /\ ~StartDateRule /\ StaleFirstRule)
        => due = SecondEntryDate

\* C5: in every case no earlier rule decides, the task is due on the date of
\* its first nextDue entry.
C5_DefaultIsFirst ==
    (Called /\ ~Grey /\ ~DueAndIncomplete /\ ~StartDateRule /\ ~StaleFirstRule)
        => due = DateOf(task.nextDue[1])

\* C6: next_due_date never raises: it returns a date or None.
C6_NeverRaises == due.kind \in {"pending", "date", "none"}

(***************************************************************************)
(* Claims about to_date (SpecDate).                                        *)
(***************************************************************************)
\* the instant a well-formed string denotes, in hours
Instant(s) == s.day * 24 + s.hour - s.off

\* C7: to_date tries ISO-8601 first and the legacy format only when that
\* fails; a legacy and an ISO string of the same instant give the same date;
\* a string in neither format gives None, not an error.
C7_ToDate ==
    parsed # Pending =>
        /\ tried[1] = "iso"
        /\ ("js" \in {tried[i] : i \in DOMAIN tried}) <=> (date.fmt # "iso")
        /\ date.fmt \notin {"iso", "js"} => parsed = None
        /\ date.fmt \in {"iso", "js"} => parsed.kind = "date"
        /\ \A s \in AllDateStrings :
              (/\ date.fmt = "js" /\ s.fmt = "iso"
               /\ Instant(s) = Instant(date))
                  => parsed = to_date(s, tz)
        /\ date.fmt = "js" =>
              parsed = Date((Instant(date) + tz) \div 24)

C7_Witness ==
    /\ parsed.kind = "date"
    /\ date.fmt = "js"
    /\ parsed.date # date.day
    /\ \E s \in AllDateStrings :
          s.fmt = "iso" /\ Instant(s) = Instant(date) /\ s.off # date.off

(***************************************************************************)
(* Claims about build_rrule (SpecRRule).                                   *)
(***************************************************************************)
\* C8: for a monthly task the rule has daysOfMonth as month-day selector when
\* days-of-month are set; only otherwise, when a week-of-month position is
\* set, it has that position as ordinal selector with the flagged weekdays
\* (Monday when none is flagged).  The two selectors are never both present,
\* and neither is present for a frequency other than monthly.
C8_MonthlySelectors ==
    rule.kind = "rrule" =>
        /\ (task.frequency = "monthly" /\ task.daysOfMonth # <<>>)
              => (rule.bymonthday = Arg(task.daysOfMonth) /\ ~rule.bysetpos.has)
        /\ (task.frequency = "monthly" /\ task.daysOfMonth = <<>>
                /\ task.weeksOfMonth # <<>>)
              => /\ rule.bysetpos = Arg(task.weeksOfMonth)
                 /\ ~rule.bymonthday.has
                 /\ rule.byweekday.has
                 /\ rule.byweekday.v =
                       IF \E d \in WeekDays : task.repeat[d]
                       THEN {weekday_map[d] : d \in {x \in WeekDays : task.repeat[x]}}
                       ELSE {"MO"}
        /\ ~(rule.bymonthday.has /\ rule.bysetpos.has)
        /\ task.frequency # "monthly"
              => (~rule.bymonthday.has /\ ~rule.bysetpos.has)

(***************************************************************************)
(* Claims about update_task (SpecRoundTrip, SpecUpdate).                   *)
(***************************************************************************)
\* the task the call names, and the frequency the edit is judged by
NamedTask == tasks[lookup_task(tasks, call.task)]
OnWeeklyTask ==
    IF call.frequency.has THEN call.frequency.v = "weekly"
    ELSE NamedTask.frequency = "weekly"

\* C9: weekday round trip: for every subset S of the seven weekdays, an
\* update of a weekly task with repeat list S submits a repeat record in
\* which exactly the days of S are true, and build_rrule on the weekly task
\* with that record and interval 1 gives a rule whose weekday set is S.
C9_WeekdayRoundTrip ==
    (outcome = "ok" /\ call.repeat.has /\ OnWeeklyTask) =>
        /\ "repeat" \in DOMAIN data
        /\ \A d \in WeekDays : data["repeat"][d] <=> d \in call.repeat.v
        /\ rule.kind = "rrule" =>
              /\ rule.byweekday.has
              /\ rule.byweekday.v = {weekday_map[d] : d \in call.repeat.v}

\* the call fields a payload key can come from
KeyFields(k) ==
    CASE k = "text" -> {"rename"}
      [] k = "notes" -> {"description"}
      [] k = "priority" -> {"priority"}
      [] k = "date" -> {"date", "clear_date"}
      [] k = "tags" -> {"tag", "remove_tag"}
      [] k = "alias" -> {"alias"}
      [] k = "value" -> {"cost"}
      [] k = "checklist" ->
            {"add_checklist_item", "remove_checklist_item",
             "score_checklist_item", "unscore_checklist_item"}
      [] k = "frequency" -> {"frequency"}
      [] k = "everyX" -> {"interval"}
      [] k \in {"up", "down"} -> {"up_down"}
      [] k = "startDate" -> {"start_date"}
      [] k = "repeat" -> {"repeat", "repeat_monthly"}
      [] k \in {"weeksOfMonth", "daysOfMonth"} -> {"repeat_monthly"}
      [] k = "reminders" ->
            {"reminder", "reminder_time", "remove_reminder",
             "remove_reminder_time", "clear_reminder"}
      [] k = "streak" -> {"streak"}
      [] k = "counterUp" -> {"counter_up"}
      [] k = "counterDown" -> {"counter_down"}
      [] OTHER -> {}

PresentFields == {f \in Fields : call[f].has}

\* C10: the submitted payload holds only keys that come from optional fields
\* the call names: a call with only priority "hard" submits exactly
\* {"priority": 2} (20 tenths), and a call that names only the task submits {}.
C10_OnlyPresentFields ==
    submitted =>
        /\ \A k \in DOMAIN data : KeyFields(k) \cap PresentFields # {}
        /\ (PresentFields = {"priority"} /\ call.priority.v = "hard")
              => (DOMAIN data = {"priority"} /\ data["priority"] = 20)
        /\ PresentFields = {} => DOMAIN data = {}

C10_Witness ==
    /\ submitted
    /\ outcome = "ok"
    /\ PresentFields = {"priority"}
    /\ call.priority.v = "hard"
    /\ DOMAIN data = {"priority"}
    /\ data["priority"] = 20

\* the user's tag that has the name n, compared in lower case
KnownTag(n) ==
    \E i \in DOMAIN user_tags :
        (IF user_tags[i].name = "A" THEN "a" ELSE user_tags[i].name)
            = (IF n = "A" THEN "a" ELSE n)
KnownTagId(n) ==
    (CHOOSE t \in {user_tags[i] : i \in DOMAIN user_tags} :
        (IF t.name = "A" THEN "a" ELSE t.name) = (IF n = "A" THEN "a" ELSE n)).id
RequestedTags ==
    IF call.tag.has THEN {call.tag.v[i] : i \in DOMAIN call.tag.v} ELSE {}
RemovedTags ==
    IF call.remove_tag.has
    THEN {call.remove_tag.v[i] : i \in DOMAIN call.remove_tag.v}
    ELSE {}

Ended12 == outcome # "pending" /\ service \in {"update_task", "cast_skill"}
SearchGiven ==
    \/ service = "update_task"
    \/ service = "cast_skill" /\ req.entry /\ req.task.has
SearchTerm == IF service = "update_task" THEN call.task ELSE req.task.v
Matches(s) ==
    {i \in DOMAIN tasks : tasks[i].id = s \/ tasks[i].alias = s \/ tasks[i].text = s}
\* the requests that change remote state
Changing == {"tasks.put", "tags.post", "cast"}

\* C12: update_task and cast_skill act on the first cached task whose id,
\* alias or text is the search term; when no task matches, the call fails
\* with task_not_found naming the search term and sends no update, tag or
\* skill request.
C12_Lookup ==
    (Ended12 /\ SearchGiven) =>
        IF Matches(SearchTerm) = {}
        THEN /\ outcome = "task_not_found"
             /\ placeholders = [k \in {"task"} |-> SearchTerm]
             /\ \A i \in DOMAIN log : log[i].op \notin Changing
        ELSE /\ outcome # "task_not_found"
             /\ \A i \in DOMAIN log :
                   log[i].op \in {"tasks.put", "cast"} =>
                       /\ \E j \in Matches(SearchTerm) :
                             /\ \A k \in Matches(SearchTerm) : j <= k
                             /\ log[i].target = tasks[j].id

C12_Witness ==
    /\ service = "cast_skill"
    /\ req.task = Present("Brush")
    /\ outcome = "ok"
    /\ log[1] = Ev("cast", "id-2", 200)


\* the upstream refused the last request the handler sent, with this status
Refused == log # <<>> /\ log[Len(log)].status # 200
RefusedStatus == log[Len(log)].status
SkillCost ==
    CASE req.skill \in {"pickpocket", "smash", "fireball"} -> "10 MP"
      [] req.skill = "backstab" -> "15 MP"
      [] OTHER -> ""

IsChange(e) == e.op # "refresh"
\* the handler ended, it sent requests that change remote state, and the
\* upstream accepted every one of them
SubmitSucceeded ==
    /\ outcome # "pending"
    /\ \E i \in DOMAIN log : IsChange(log[i])
    /\ \A i \in DOMAIN log : log[i].status = 200

\* C14: when the requests of update_task, cast_skill or a to-do list
\* operation have changed remote state, the handler has refreshed the
\* coordinator after the last of them; after a refused request no refresh
\* happens.
C14_RefreshAfterSubmit ==
    /\ SubmitSucceeded =>
          \E r \in DOMAIN log :
              /\ log[r].op = "refresh"
              /\ \A i \in DOMAIN log : IsChange(log[i]) => i < r
    /\ \A i \in DOMAIN log :
          log[i].status # 200 => \A r \in DOMAIN log : log[r].op = "refresh" => r < i


(***************************************************************************)
(* Claims about HabitipyData.update and its sensor (SpecPoll).             *)
(***************************************************************************)
\* the statuses the upstream answered the fetches of the last run with
LastStatuses == {last.user, last.tasks1, last.tasks2}

\* C15: a run of update in which the upstream answers 429 changes neither
\* the cached user data nor the cached task list, and fetches nothing more
\* after the 429.
C15_RateLimitNoChange ==
    (last.ran /\ 429 \in LastStatuses) =>
        /\ hdata = last.pre_data
        /\ htasks = last.pre_tasks
        /\ last.user = 429 => last.fetched = <<"user">>

\* C16: when the user fetch of a run fails with an error other than 429, the
\* failure surfaces: update raises, or the sensor that polled holds no value
\* or fails to update; it does not go on showing the value cached before.
C16_FailureIsUnavailable ==
    (last.ran /\ last.caller = "HabitipySensor" /\ last.user \notin {200, 429}) =>
        \/ last.raised
        \/ sensor_error # ""
        \/ ~native_value.has

\* C17: no response error escapes update; whatever the polls before it did,
\* every run of update fetches the user data and the task list, a successful
\* user fetch replaces the cached user data and a successful pair of task
\* fetches replaces the cached task list.
C17_NoStickyFailure ==
    last.ran =>
        /\ ~last.raised
        /\ last.fetched[1] = "user"
        /\ Len(last.fetched) >= 2 /\ last.fetched[2] = "tasks"
        /\ last.tasks1 = 200 => last.fetched[3] = "completedTodos"
        /\ last.user = 200 => hdata = [has |-> TRUE, v |-> last.user_body]
        /\ last.user # 200 => hdata = last.pre_data
        /\ (last.tasks1 = 200 /\ last.tasks2 = 200) =>
              htasks = last.tasks_body \o last.completed_body
        /\ (last.tasks1 # 200 \/ last.tasks2 # 200) => htasks = last.pre_tasks

C17_Witness ==
    /\ last.ran
    /\ last.prev_user = 500
    /\ last.prev_tasks = 429
    /\ last.user = 200
    /\ last.tasks1 = 200 /\ last.tasks2 = 200
    /\ hdata.has /\ hdata # last.pre_data
    /\ htasks # <<>> /\ last.pre_tasks = <<>>


(***************************************************************************)
(* Claims about the Pinecil's setting writes (SpecPinecil).                *)
(***************************************************************************)
\* C18: at every moment at most one deferred save is pending; every burst
\* of writes ends in exactly one save to flash, which runs after the last
\* write of the burst and so stores the settings as last written.
C18_OneDeferredSave ==
    /\ pending \in {0, 1}
    /\ pending = 0 => (saves = bursts /\ flash = settings)
    /\ pending = 1 => saves + 1 = bursts

C18_Witness ==
    /\ writes = 3
    /\ bursts = 1
    /\ saves = 1
    /\ pending = 0
    /\ flash = settings
    /\ flash["setpoint_temp"] = 3


(***************************************************************************)
(* Claims about the recurrence edits of update_task (SpecUpdate).          *)
(***************************************************************************)
\* the handler found the task and ended
Found == outcome \notin {"pending", "task_not_found"}
\* the call's frequency if given, otherwise the task's
EffFrequency ==
    IF call.frequency.has THEN call.frequency.v ELSE NamedTask.frequency

\* C19: a repeat edit is rejected unless the effective frequency is weekly,
\* and a repeat_monthly edit unless it is monthly; when the rejection is
\* raised, the call has sent neither a put nor a tag creation.
C19_RejectsBeforeSending ==
    /\ (Found /\ call.repeat.has /\ EffFrequency # "weekly")
          => (~submitted /\ outcome # "ok")
    /\ (Found /\ call.repeat_monthly.has /\ EffFrequency # "monthly")
          => (~submitted /\ outcome # "ok")
    /\ outcome \in {"frequency_not_weekly", "frequency_not_monthly"}
          => (~submitted /\ posted = <<>>)

\* the start date of a repeat_monthly edit, as a day number
StartDay ==
    IF call.start_date.has
    THEN call.start_date.v
    ELSE (NamedTask.startDate.day * 24 + NamedTask.startDate.hour
            - NamedTask.startDate.off + tz) \div 24

\* C20: a submitted repeat_monthly edit with start date d: day_of_week
\* submits weeksOfMonth = (day(d) - 1) div 7, a value in 0..4, a repeat
\* record in which exactly the weekday of d is true, and an empty daysOfMonth;
\* day_of_month submits daysOfMonth = day(d) and an empty weeksOfMonth.
C20_RepeatMonthly ==
    (submitted /\ call.repeat_monthly.has) =>
        LET dom == (StartDay % 31) + 1
            week == (dom - 1) \div 7
        IN  /\ EffFrequency = "monthly"
            /\ IF call.repeat_monthly.v = "day_of_week"
               THEN /\ week \in 0..4
                    /\ data["weeksOfMonth"] = [kind |-> "int", n |-> week]
                    /\ \A i \in 1..7 :
                          data["repeat"][WEEK_DAYS[i]] <=> (i - 1 = StartDay % 7)
                    /\ data["daysOfMonth"] = [kind |-> "list", n |-> 0]
               ELSE /\ data["daysOfMonth"] = [kind |-> "int", n |-> dom]
                    /\ data["weeksOfMonth"] = [kind |-> "list", n |-> 0]
                    /\ "repeat" \notin DOMAIN data

C20_Witness ==
    /\ submitted
    /\ outcome = "ok"
    /\ call.repeat_monthly = Present("day_of_week")
    /\ call.start_date = Present(6)
    /\ data["weeksOfMonth"] = JsonInt(0)
    /\ data["repeat"]["su"]
    /\ data["daysOfMonth"] = JsonEmptyList


(***************************************************************************)
(* Claims about the list entities (SpecActions).                           *)
(***************************************************************************)
UpdateEnded == service = "update" /\ outcome # "pending"
\* the tasks the list entity shows under the item's uid
Shown ==
    {i \in DOMAIN tasks :
        /\ tasks[i].id = req.item.uid
        /\ \/ req.idx = "todos" /\ tasks[i].type = "todo"
           \/ req.idx = "dailys" /\ tasks[i].type = "daily"
           \/ req.idx = "habits" /\ tasks[i].type = "habit"
                /\ (tasks[i].up \/ tasks[i].down)}
\* the item goes from needs-action to completed, or back
GoesCompleted ==
    /\ req.item.status = "completed"
    /\ \E i \in Shown : req.idx = "habits" \/ ~tasks[i].completed
GoesNeedsAction ==
    /\ req.item.status = "needs_action"
    /\ \E i \in Shown : req.idx # "habits" /\ tasks[i].completed
Scores == {i \in DOMAIN log : log[i].op \in {"tasks.score.up", "tasks.score.down"}}
Refreshes == {i \in DOMAIN log : log[i].op = "refresh"}

\* C21: async_update_todo_item sends the put first and a score second, up
\* exactly when the item goes from needs-action to completed and down exactly
\* when it goes from completed to needs-action; a failed put is followed by
\* no score and no refresh, a failed score by no further request and no
\* refresh.
C21_PutThenScore ==
    UpdateEnded =>
        /\ log # <<>>
        /\ log[1].op = "tasks.put" /\ log[1].target = req.item.uid
        /\ Scores \subseteq {2}
        /\ (2 \in DOMAIN log /\ log[2].op = "tasks.score.up")
              <=> (log[1].status = 200 /\ GoesCompleted)
        /\ (2 \in DOMAIN log /\ log[2].op = "tasks.score.down")
              <=> (log[1].status = 200 /\ GoesNeedsAction)
        /\ \A i \in Scores : log[i].target = req.item.uid
        /\ log[1].status # 200 => Len(log) = 1
        /\ (2 \in Scores /\ log[2].status # 200) => Len(log) = 2

C21_Witness ==
    /\ UpdateEnded
    /\ req.idx = "todos" /\ req.item.uid = "id-5"
    /\ outcome = "score_todos_item_failed"
    /\ log = <<Ev("tasks.put", "id-5", 200), Ev("tasks.score.down", "id-5", 429)>>

\* C22: async_delete_todo_items deletes the uids one at a time in the given
\* order and refreshes only after every deletion succeeded; a refused
\* deletion raises the delete-failed error, the uids after it are not
\* attempted and nothing is refreshed.
C22_DeleteInOrder ==
    (service = "delete" /\ outcome # "pending") =>
        LET deletes == SelectSeq(log, LAMBDA e : e.op = "tasks.delete")
            n == Len(deletes)
        IN  /\ n <= Len(req.uids)
            /\ \A i \in 1..n :
                  /\ log[i] = deletes[i]
                  /\ deletes[i].target = req.uids[i]
                  /\ i < n => deletes[i].status = 200
            /\ IF n > 0 /\ deletes[n].status # 200
               THEN outcome = "delete_" \o req.idx \o "_failed" /\ Len(log) = n
               ELSE /\ outcome = "ok"
                    /\ n = Len(req.uids)
                    /\ Len(log) = n + 1
                    /\ log[n + 1].op = "refresh"

C22_Witness ==
    /\ service = "delete"
    /\ req.uids = <<"id-4", "id-5", "gone">>
    /\ outcome = "delete_todos_failed"
    /\ log = <<Ev("tasks.delete", "id-4", 200), Ev("tasks.delete", "id-5", 404)>>

\* C24: async_update_todo_item for an item whose status is unchanged and
\* whose put succeeds completes without error, sends no score and refreshes.
C24_UnchangedStatus ==
    (/\ UpdateEnded
     /\ \E i \in Shown : req.idx # "habits" /\ Status(tasks[i].completed) = req.item.status
     /\ log # <<>> /\ log[1].status = 200)
        => (outcome = "ok" /\ Scores = {} /\ Refreshes # {})


(***************************************************************************)
(* Claims about the ista EcoTrend entry setup (SpecIsta).                  *)
(***************************************************************************)
\* C23: a code stored in the entry data is used for at most one login of
\* async_setup_entry: it is already cleared when the login is attempted,
\* whatever the login answers, no later setup logs in with it again, and the
\* OTP entity's state is the code only when no code was stored.
C23_CodeUsedOnce ==
    /\ \A i \in DOMAIN logins :
        /\ logins[i].stored = 0
        /\ logins[i].before # 0 => logins[i].totp = [src |-> "code", n |-> logins[i].before]
        /\ logins[i].totp.src = "state" => logins[i].before = 0
        /\ \A j \in DOMAIN logins :
              (i # j /\ logins[i].totp.src = "code") => logins[i].totp # logins[j].totp
    /\ (logins # <<>> /\ ista_entry.state \in {"loaded", "setup_retry", "setup_error"})
          => ista_entry.code = 0

C23_Witness ==
    /\ Len(logins) = 2
    /\ logins[1].totp = CodeTotp(1)
    /\ logins[1].answer = "ServerError"
    /\ logins[2].totp = StateTotp(2)
    /\ ista_entry.otp
    /\ ista_entry.code = NoCode


(***************************************************************************)
(* Claims about the habitica config entries (SpecEntries).                 *)
(***************************************************************************)
\* C25: the api_call service is registered exactly when at least one
\* habitica entry is loaded, and api_call never runs against an entry that is
\* not loaded.
C25_ApiCallIffLoaded ==
    /\ registered <=> (\E e \in EntryIds : hentries[e] = "loaded")
    /\ \A i \in DOMAIN api_runs :
          api_runs[i].against \in {"loaded", "not configured"}


(***************************************************************************)
(* Claims about the LedSC light (SpecLedsc).                               *)
(***************************************************************************)
\* C29: once every request is processed and every report received, the
\* light is in the state the last turn-on / turn-off call asked for.
C29_LastCallWins ==
    (requested # "none" /\ to_device = <<>> /\ to_client = <<>>)
        => /\ dev_on <=> requested = "on"
           /\ websc_on <=> requested = "on"


(***************************************************************************)
(* Claims about the cache, the reminders and the numeric fields of         *)
(* update_task (SpecUpdate).                                               *)
(***************************************************************************)
\* C26: after update_task the cached tasks' checklists, tags and reminders
\* are what they were after the refresh at the start of the call, however
\* the call ended.
C26_CacheUntouched ==
    (service = "update_task" /\ outcome # "pending") =>
        \A i \in DOMAIN tasks :
            /\ tasks[i].checklist = CachedTasks[i].checklist
            /\ tasks[i].tags = CachedTasks[i].tags
            /\ tasks[i].reminders = CachedTasks[i].reminders

\* a reminder edit is one of the four list fields, given and not empty
Given(f) == f.has /\ f.v # <<>>
ReminderEdits ==
    \/ Given(call.reminder) \/ Given(call.reminder_time)
    \/ Given(call.remove_reminder) \/ Given(call.remove_reminder_time)
\* the call names the moment (day, hour), or the hour, for removal
RemovalNames(day, hour) ==
    \/ /\ Given(call.remove_reminder)
       /\ \E i \in DOMAIN call.remove_reminder.v :
            call.remove_reminder.v[i].day = day /\ call.remove_reminder.v[i].hour = hour
    \/ /\ Given(call.remove_reminder_time)
       /\ \E i \in DOMAIN call.remove_reminder_time.v :
            call.remove_reminder_time.v[i].hour = hour
RemovalNamesHour(hour) ==
    \/ /\ Given(call.remove_reminder)
       /\ \E i \in DOMAIN call.remove_reminder.v : call.remove_reminder.v[i].hour = hour
    \/ /\ Given(call.remove_reminder_time)
       /\ \E i \in DOMAIN call.remove_reminder_time.v :
            call.remove_reminder_time.v[i].hour = hour

\* C27: a submitted call with reminder edits and no clear_reminder submits a
\* reminders list that holds every added reminder that did not exist, none
\* of the existing reminders named for removal and every other existing one.
C27_AllReminderEdits ==
    (/\ submitted
     /\ ReminderEdits
     /\ ~(call.clear_reminder.has /\ call.clear_reminder.v))
        => /\ "reminders" \in DOMAIN data
           /\ LET old == NamedTask.reminders
                  new == data["reminders"]
              IN  /\ \A i \in DOMAIN old :
                        (\E j \in DOMAIN new : new[j] = old[i])
                            <=> ~RemovalNames(old[i].day, old[i].hour)
                  /\ Given(call.reminder) =>
                        \A k \in DOMAIN call.reminder.v :
                            LET r == call.reminder.v[k]
                            IN  (/\ ~RemovalNamesHour(r.hour)
                                 /\ \A i \in DOMAIN old :
                                        ~(old[i].day = r.day /\ old[i].hour = r.hour))
                                    => \E j \in DOMAIN new :
                                          /\ new[j].id.src = "uuid4"
                                          /\ ~new[j].daily
                                          /\ new[j].day = r.day
                                          /\ new[j].hour = r.hour
                  /\ Given(call.reminder_time) =>
                        \A k \in DOMAIN call.reminder_time.v :
                            LET r == call.reminder_time.v[k]
                            IN  (/\ ~RemovalNamesHour(r.hour)
                                 /\ \A i \in DOMAIN old : old[i].hour # r.hour)
                                    => \E j \in DOMAIN new :
                                          /\ new[j].id.src = "uuid4"
                                          /\ new[j].daily
                                          /\ new[j].hour = r.hour

\* C28: every numeric field present in a submitted call, the value 0
\* included, is submitted under its key with its value.
C28_ZeroIsSubmitted ==
    submitted =>
        /\ call.streak.has =>
              ("streak" \in DOMAIN data /\ data["streak"] = call.streak.v)
        /\ call.counter_up.has =>
              ("counterUp" \in DOMAIN data /\ data["counterUp"] = call.counter_up.v)
        /\ call.counter_down.has =>
              ("counterDown" \in DOMAIN data /\ data["counterDown"] = call.counter_down.v)
        /\ call.interval.has =>
              ("everyX" \in DOMAIN data /\ data["everyX"] = call.interval.v)
        /\ call.cost.has =>
              ("value" \in DOMAIN data /\ data["value"] = call.cost.v)


(***************************************************************************)
(* Claims about the due date the dailies list shows (SpecShown).           *)
(***************************************************************************)
\* C30: the due date the dailies list shows for a task equals
\* util.next_due_date(task, lastCron), for every task and last-reset string.
C30_ShownIsNextDueDate ==
    (due # Pending /\ shown # Pending) => shown = due


====
